---------------------------- MODULE Spec2Model ----------------------------
(***************************************************************************)
(* A model of the blog editor's document pipeline:                         *)
(*   - the editor core (src/js/editor.js): textarea value, undo history,   *)
(*     image collapse/restore codec and the content accessor used by the   *)
(*     export path (src/js/export.js);                                     *)
(*   - the PDF converter (src/js/pdf-converter.js): operator scan with the *)
(*     transform stack, page assembly, post-formatter;                     *)
(*   - the DOCX normalizer (src/js/export.js): list merge and rendering.   *)
(*                                                                         *)
(* Text is a sequence of atoms.  An atom is one character, or a run of     *)
(* characters that the regular expressions of the code treat as a unit:    *)
(*   "x"            an ordinary character                                  *)
(*   "!" "[" "]" "(" ")"   the punctuation the patterns look for           *)
(*   "K"            the literal  "(camera) IMAGE-COLLAPSED-"               *)
(*   "H1", "H2"     a whole <p ...><img ... src="data:image..." ...></p>   *)
(*   "D1", "D2"     "data:image/...;base64,...." (no ')' and no ']')       *)
(*   "img-1", ...   an id as built by 'img-' + Math.random()...            *)
(*   "constructor"  the name of a property of Object.prototype             *)
(*   "fnObject"     "function Object() { [native code] }"                  *)
(***************************************************************************)
EXTENDS Integers, Sequences, FiniteSets, TLC

VARIABLES
    \* ---- editor (src/js/editor.js) ----
    value,            \* editorTextarea.value
    imagesCollapsed,  \* let imagesCollapsed
    imageStore,       \* let imageStore (own properties)
    history,          \* let history
    historyIndex,     \* let historyIndex
    \* ---- codec exercised as pure functions ----
    cOps,             \* the passes applied so far
    cTexts,           \* cTexts[1] is the input, cTexts[k+1] the text after pass k
    cStores,          \* cStores[k+1] the store after pass k
    cIds,             \* cIds[k] the ids drawn by pass k
    \* ---- post-formatter ----
    fIn,              \* the input string
    fOut,             \* <<formatMarkdown(x), formatMarkdown(formatMarkdown(x))>>
    \* ---- page assembly ----
    textBlocks,       \* the page's text blocks
    pageImages,       \* the page's images with positions
    allContent,       \* const allContent
    aPc,              \* position in the page loop body
    \* ---- operator scan ----
    fnArray,          \* the operators scanned so far (operatorList, up to i)
    ctmStack,         \* let ctmStack
    imageOps,         \* const imageOps
    scanThrew,        \* an exception left the scan loop
    \* ---- DOCX list normalizer ----
    html,             \* the HTML handed to htmlToMarkdown, as its top-level elements
    dom,              \* node id -> element of the container
    order,            \* container.children, as node ids in document order
    children,         \* const children (the array copy)
    rendered,         \* per top-level element, the rendered list lines
    lPc,              \* position in htmlToMarkdown
    \* ---- DOCX table renderer ----
    table,            \* the <table> element, as its rows of cells
    tableOut,         \* the string processTable returned
    tPc,              \* position in processTable
    \* ---- PDF text extraction ----
    textItems,        \* textContent.items
    pageBlocks,       \* what extractTextBlocks returned
    bPc,              \* position in extractTextBlocks
    \* ---- line reconstruction ----
    lineSource,       \* the text the glyph runs of a line were laid out from
    lineRuns,         \* the glyph runs (items of one line)
    lineOut,          \* the text the line map of processTextBlock built
    gPc,              \* position in the line map
    \* ---- convertPdfToMarkdown ----
    pdfDoc,           \* the document: its pages' text blocks and image references
    pageNum,          \* let pageNum
    pageText,         \* const textBlocks of the current page
    pageOps,          \* imageOps of the current page, sorted
    opIndex,          \* the i of the image loop
    images,           \* const images of the current page
    imagePositions,   \* const imagePositions of the current page
    markdown,         \* let markdown, as the items appended so far
    allImages,        \* const allImages
    globalImageCounter, \* let globalImageCounter
    events,           \* the steps taken so far, in order
    cPc,              \* position in convertPdfToMarkdown
    \* ---- file import (PdfConverter.processFile, DocxConverter.processFile) ----
    importFile,       \* the file handed to processFile
    postTitle,        \* the value of #post-title
    extractedImages,  \* let extractedImages (pdf-converter.js)
    errorsShown,      \* error toasts shown by this import
    partial,          \* the local markdown of a conversion in progress
    surfaceBefore,    \* the editor surface when processFile was called
    typed,            \* whether the user typed while the import was running
    iPc,              \* position in processFile
    \* ---- autosave (src/js/editor.js) ----
    saved,            \* localStorage item 'blog-editor-autosave'
    confirmsShown,    \* confirm() dialogs shown
    valueAtInit,      \* editorTextarea.value when init began
    rPc,              \* position in init / restoreAutoSave
    \* ==== components of the session, timing and start-up properties ====
    \* ---- DOCX top-level pass (processNodesWithState) ----
    topNodes,         \* nodes, the top-level nodes handed to processNodesWithState
    nodeResults,      \* what each node processed so far added to result
    lastWasListItem,  \* let lastWasListItem
    nPc,              \* position in processNodesWithState
    \* ---- PDF list-marker lines (processTextBlock) ----
    markerLine,       \* the items of a one-line block
    markerOut,        \* what processTextBlock returned for it
    mPc,              \* position
    \* ---- timers and preview (setupInputListeners, Preview.render) ----
    timers,           \* the timeouts pending in the event loop
    debounceTimer,    \* let debounceTimer (0: undefined)
    autosaveTimer,    \* let autosaveTimer (0: undefined)
    nextTimerId,      \* the id the next setTimeout returns
    preview,          \* previewContent.innerHTML
    inputCount,       \* input events handled
    debouncedRenders, \* debounced renders since the last input event
    \* ---- edits made while the images are collapsed ----
    original,         \* the document as loaded, images expanded
    typedAtStart,     \* what the user typed before the text while collapsed
    typedAtEnd,       \* what the user typed after the text while collapsed
    \* ---- the image lookups of a page (extractImagesWithPositions) ----
    lookupCount,      \* imageOps.length
    lookupIndex,      \* i of the image loop, counted from 1
    promiseState,     \* the promise awaited for imageOps[i]
    timeoutPending,   \* whether the 5000 ms timeout of that promise is pending
    callbacksOwed,    \* the references whose callback page.objs holds and has not called
    foundImages,      \* images, as the references they came from
    timedOut,         \* the references whose wait ended at the timeout
    lateCallbacks,    \* the references whose callback came after their timeout
    xPc,              \* position in extractImagesWithPositions
    \* ---- PDF imports running at the same time (PdfConverter.processFile) ----
    running,          \* per call of processFile: its file, its local markdown and images, its position
    finished,         \* the calls that wrote their result, in the order they did
    \* ---- start-up of the application (App init, Editor.init, Preview.init) ----
    listening,        \* Preview's 'editor:update' listener is registered
    startPc,          \* position in the start-up
    eventsLost        \* 'editor:update' events dispatched with no listener
    \* ==== end of the variables ====

edVars     == <<value, imagesCollapsed, imageStore, history, historyIndex>>
codecVars  == <<cOps, cTexts, cStores, cIds>>
fmtVars    == <<fIn, fOut>>
asmVars    == <<textBlocks, pageImages, allContent, aPc>>
scanVars   == <<fnArray, ctmStack, imageOps, scanThrew>>
listVars   == <<html, dom, order, children, rendered, lPc>>
tableVars  == <<table, tableOut, tPc>>
firstVars  == <<edVars, codecVars, fmtVars, asmVars, scanVars, listVars>>
blockVars  == <<textItems, pageBlocks, bPc>>
gapVars    == <<lineSource, lineRuns, lineOut, gPc>>
convVars   == <<pdfDoc, pageNum, pageText, pageOps, opIndex, images, imagePositions,
                markdown, allImages, globalImageCounter, events, cPc>>
importVars == <<importFile, postTitle, extractedImages, errorsShown, partial, surfaceBefore, typed, iPc>>
autosaveVars == <<saved, confirmsShown, valueAtInit, rPc>>
midVars    == <<tableVars, blockVars, gapVars, convVars, importVars, autosaveVars>>
\* ==== frames of the session, timing and start-up components ====
nodeVars == <<topNodes, nodeResults, lastWasListItem, nPc>>
markerVars == <<markerLine, markerOut, mPc>>
debounceVars == <<timers, debounceTimer, autosaveTimer, nextTimerId, preview, inputCount, debouncedRenders>>
editVars == <<original, typedAtStart, typedAtEnd>>
lookupVars == <<lookupCount, lookupIndex, promiseState, timeoutPending, callbacksOwed, foundImages, timedOut, lateCallbacks, xPc>>
overlapVars == <<running, finished>>
startVars == <<listening, startPc, eventsLost>>
lastVars == <<nodeVars, markerVars, debounceVars, editVars, lookupVars, overlapVars, startVars>>
otherNodeVars == <<firstVars, midVars, markerVars, debounceVars, editVars, lookupVars, overlapVars, startVars>>
restOfNodeVars == <<markerVars, debounceVars, editVars, lookupVars, overlapVars, startVars>>
otherMarkerVars == <<firstVars, midVars, nodeVars, debounceVars, editVars, lookupVars, overlapVars, startVars>>
restOfMarkerVars == <<nodeVars, debounceVars, editVars, lookupVars, overlapVars, startVars>>
otherDebounceVars == <<firstVars, midVars, nodeVars, markerVars, editVars, lookupVars, overlapVars, startVars>>
restOfDebounceVars == <<nodeVars, markerVars, editVars, lookupVars, overlapVars, startVars>>
otherEditVars == <<firstVars, midVars, nodeVars, markerVars, debounceVars, lookupVars, overlapVars, startVars>>
restOfEditVars == <<nodeVars, markerVars, debounceVars, lookupVars, overlapVars, startVars>>
otherLookupVars == <<firstVars, midVars, nodeVars, markerVars, debounceVars, editVars, overlapVars, startVars>>
restOfLookupVars == <<nodeVars, markerVars, debounceVars, editVars, overlapVars, startVars>>
otherOverlapVars == <<firstVars, midVars, nodeVars, markerVars, debounceVars, editVars, lookupVars, startVars>>
restOfOverlapVars == <<nodeVars, markerVars, debounceVars, editVars, lookupVars, startVars>>
otherStartVars == <<firstVars, midVars, nodeVars, markerVars, debounceVars, editVars, lookupVars, overlapVars>>
restOfStartVars == <<nodeVars, markerVars, debounceVars, editVars, lookupVars, overlapVars>>
\* ==== end of the frames ====
laterVars  == <<midVars, lastVars>>
vars       == <<edVars, codecVars, fmtVars, asmVars, scanVars, listVars, laterVars>>

(***************************************************************************)
(* Bounds of the model.                                                    *)
(***************************************************************************)
MaxEdits   == 2      \* input events per run of the editor
MaxParts   == 3      \* fragments a codec input is built from
MaxFmtLen  == 5      \* length of a post-formatter input
MaxItems   == 4      \* content items of a page
MaxOps     == 5      \* operators of a page's operator list
MaxRows    == 2
MaxRuns    == 3
MaxChars   == 4
MaxPages   == 2
MaxRefs    == 2
MaxDocxElems == 2
MaxNodes == 3
MaxInputs == 3
MaxLookups == 3
MaxTyped == 27
MaxCols    == 3
MaxElems   == 4      \* top-level elements of a DOCX container

(***************************************************************************)
(* Generic helpers.                                                        *)
(***************************************************************************)
Last(s) == s[Len(s)]

RECURSIVE Flatten(_)
Flatten(ss) == IF ss = <<>> THEN <<>> ELSE Head(ss) \o Flatten(Tail(ss))

\* All sequences over S of length exactly n / at most n.
SeqsOfLen(S, n) == [1..n -> S]
SeqsUpTo(S, n)  == UNION { SeqsOfLen(S, k) : k \in 0..n }

\* The first index >= from whose atom is in S, or 0.
RECURSIVE FirstIn(_, _, _)
FirstIn(s, from, S) ==
    IF from > Len(s) THEN 0
    ELSE IF s[from] \in S THEN from
    ELSE FirstIn(s, from + 1, S)

(***************************************************************************)
(* The image collapse/restore codec (src/js/editor.js).                    *)
(***************************************************************************)
HtmlImages == {"H1", "H2"}          \* matches of htmlImgPattern
DataUrls   == {"D1", "D2"}          \* text matching  data:image[^)]+
GenIds     == {"img-1", "img-2"}    \* values 'img-' + Math.random()... can take
ProtoKeys  == {"constructor"}       \* properties an object literal inherits
\* Atoms that hold a ']' / a ')' inside them.
WithRBracket == {"]", "fnObject"}
WithRParen   == {")", "fnObject"}

\* imageStore = {}
EmptyStore == [k \in {} |-> <<>>]

\* imageStore[id] = match
StorePut(store, id, match) ==
    [k \in DOMAIN store \cup {id} |-> IF k = id THEN match ELSE store[k]]

\* `[(camera) IMAGE-COLLAPSED-${id}]`
Placeholder(id) == <<"[", "K">> \o id \o <<"]">>

\* 'img-' + Math.random().toString(36).substr(2, 9): one id atom, any of GenIds,
\* taken from the draws rnd in order.
\* result.replace(htmlImgPattern, ...): every <p><img src="data:image..."></p>
\* becomes a placeholder, the whole tag is stored under the drawn id.
RECURSIVE ReplaceHtmlImages(_, _, _)
ReplaceHtmlImages(content, i, r) ==
    IF i > Len(content) THEN r
    ELSE IF content[i] \in HtmlImages
    THEN LET id == <<Head(r.rnd)>>
         IN  ReplaceHtmlImages(content, i + 1,
                 [out   |-> r.out \o Placeholder(id),
                  store |-> StorePut(r.store, id, <<content[i]>>),
                  rnd   |-> Tail(r.rnd)])
    ELSE ReplaceHtmlImages(content, i + 1, [r EXCEPT !.out = Append(@, content[i])])

\* The index where a match of  !\[([^\]]*)\]\((data:image[^)]+)\)  that starts
\* at i ends, or 0 when none starts at i.
MdImageEnd(content, i) ==
    IF ~(i + 1 <= Len(content) /\ content[i] = "!" /\ content[i + 1] = "[")
    THEN 0
    ELSE LET j == FirstIn(content, i + 2, WithRBracket)
         IN  IF j = 0 \/ content[j] # "]" \/ j + 2 > Len(content) THEN 0
             ELSE IF content[j + 1] # "(" \/ content[j + 2] \notin DataUrls THEN 0
             ELSE LET k == FirstIn(content, j + 3, WithRParen)
                  IN  IF k = 0 \/ content[k] # ")" THEN 0 ELSE k

\* result.replace(mdImgPattern, ...): leftmost matches, left to right, the scan
\* resuming after each match.
RECURSIVE ReplaceMdImages(_, _, _)
ReplaceMdImages(content, i, r) ==
    IF i > Len(content) THEN r
    ELSE LET k == MdImageEnd(content, i)
         IN  IF k > 0
             THEN LET id == <<Head(r.rnd)>>
                  IN  ReplaceMdImages(content, k + 1,
                          [out   |-> r.out \o Placeholder(id),
                           store |-> StorePut(r.store, id, SubSeq(content, i, k)),
                           rnd   |-> Tail(r.rnd)])
             ELSE ReplaceMdImages(content, i + 1,
                          [r EXCEPT !.out = Append(@, content[i])])

\* collapseImages(content), run on the store it finds, with the random draws rnd:
\* the HTML pass first, then the Markdown pass over its result.
collapseImages(content, store, rnd) ==
    LET h == ReplaceHtmlImages(content, 1, [out |-> <<>>, store |-> store, rnd |-> rnd])
    IN  ReplaceMdImages(h.out, 1, [out |-> <<>>, store |-> h.store, rnd |-> h.rnd])

\* How many ids collapseImages(content) draws (it does not depend on their values).
DrawsNeeded(content) ==
    LET any == [n \in 1..Len(content) |-> "img-1"]
    IN  Len(content) - Len(collapseImages(content, EmptyStore, any).rnd)

\* imageStore[id] || match : an own entry, else what the object literal inherits
\* from Object.prototype (a function, which replace() turns into its source text),
\* else the match itself.
StoreLookup(store, id, match) ==
    IF id \in DOMAIN store THEN store[id]
    ELSE IF Len(id) = 1 /\ id[1] \in ProtoKeys THEN <<"fnObject">>
    ELSE match

\* The index where a match of  \[(camera) IMAGE-COLLAPSED-([^\]]+)\]  that starts
\* at i ends, or 0 when none starts at i.
PlaceholderEnd(content, i) ==
    IF ~(i + 1 <= Len(content) /\ content[i] = "[" /\ content[i + 1] = "K")
    THEN 0
    ELSE LET j == FirstIn(content, i + 2, WithRBracket)
         IN  IF j = 0 \/ j = i + 2 THEN 0 ELSE j

\* restoreImages(content): each placeholder is replaced by the store's entry for
\* its id; the replacement text is not scanned again.
RECURSIVE restoreFrom(_, _, _)
restoreFrom(content, i, store) ==
    IF i > Len(content) THEN <<>>
    ELSE LET j == PlaceholderEnd(content, i)
         IN  IF j > 0
             THEN StoreLookup(store, SubSeq(content, i + 2, j - 1), SubSeq(content, i, j))
                      \o restoreFrom(content, j + 1, store)
             ELSE <<content[i]>> \o restoreFrom(content, i + 1, store)

restoreImages(content, store) == restoreFrom(content, 1, store)

\* The placeholder tokens of a text, as the restore pattern finds them.
RECURSIVE TokensFrom(_, _)
TokensFrom(content, i) ==
    IF i > Len(content) THEN {}
    ELSE LET j == PlaceholderEnd(content, i)
         IN  IF j > 0 THEN {SubSeq(content, i, j)} \cup TokensFrom(content, j + 1)
             ELSE TokensFrom(content, i + 1)
Tokens(content) == TokensFrom(content, 1)

\* Whether a placeholder of a generated id occurs anywhere in the text.
HasCollapsedToken(content) ==
    \E i \in 1..Len(content) :
        /\ i + 3 <= Len(content)
        /\ SubSeq(content, i, i + 3) \in { Placeholder(<<g>>) : g \in GenIds }

IdleEditor ==
    /\ value = <<>> /\ imagesCollapsed = FALSE /\ imageStore = EmptyStore
    /\ history = <<>> /\ historyIndex = -1
IdleCodec  == cOps = <<>> /\ cTexts = <<>> /\ cStores = <<>> /\ cIds = <<>>
IdleFmt    == fIn = <<>> /\ fOut = <<>>
IdleAsm    == textBlocks = <<>> /\ pageImages = <<>> /\ allContent = <<>> /\ aPc = "idle"
IdleScan   == fnArray = <<>> /\ ctmStack = <<>> /\ imageOps = <<>> /\ scanThrew = FALSE
IdleLists  == html = <<>> /\ dom = <<>> /\ order = <<>> /\ children = <<>> /\ rendered = <<>> /\ lPc = "idle"
IdleTable  == table = <<>> /\ tableOut = <<>> /\ tPc = "idle"
IdleBlocks == textItems = <<>> /\ pageBlocks = <<>> /\ bPc = "idle"
IdleGaps   == lineSource = <<>> /\ lineRuns = <<>> /\ lineOut = <<>> /\ gPc = "idle"
IdleConv   ==
    /\ pdfDoc = <<>> /\ pageNum = 0 /\ pageText = <<>> /\ pageOps = <<>> /\ opIndex = 0
    /\ images = <<>> /\ imagePositions = <<>> /\ markdown = <<>> /\ allImages = <<>>
    /\ globalImageCounter = 0 /\ events = <<>> /\ cPc = "idle"
IdleImport ==
    /\ importFile = <<>> /\ postTitle = <<>> /\ extractedImages = <<>> /\ errorsShown = 0
    /\ partial = <<>> /\ surfaceBefore = <<>> /\ typed = FALSE /\ iPc = "idle"
IdleAutosave ==
    /\ saved = <<>> /\ confirmsShown = 0 /\ valueAtInit = <<>> /\ rPc = "idle"
IdleMid    == IdleTable /\ IdleBlocks /\ IdleGaps /\ IdleConv /\ IdleImport /\ IdleAutosave
IdleFirst  == IdleEditor /\ IdleCodec /\ IdleFmt /\ IdleAsm /\ IdleScan /\ IdleLists
\* ==== idle states of the session, timing and start-up components ====
IdleNodes ==
    /\ topNodes = <<>>
    /\ nodeResults = <<>>
    /\ lastWasListItem = FALSE
    /\ nPc = "idle"
IdleMarkers ==
    /\ markerLine = <<>>
    /\ markerOut = <<>>
    /\ mPc = "idle"
IdleDebounce ==
    /\ timers = {}
    /\ debounceTimer = 0
    /\ autosaveTimer = 0
    /\ nextTimerId = 1
    /\ preview = <<>>
    /\ inputCount = 0
    /\ debouncedRenders = 0
IdleEdits ==
    /\ original = <<>>
    /\ typedAtStart = <<>>
    /\ typedAtEnd = <<>>
IdleLookup ==
    /\ lookupCount = 0
    /\ lookupIndex = 1
    /\ promiseState = "none"
    /\ timeoutPending = FALSE
    /\ callbacksOwed = {}
    /\ foundImages = <<>>
    /\ timedOut = {}
    /\ lateCallbacks = {}
    /\ xPc = "idle"
IdleOverlap ==
    /\ running = <<>>
    /\ finished = <<>>
IdleStart ==
    /\ listening = FALSE
    /\ startPc = "idle"
    /\ eventsLost = 0
IdleLast == IdleNodes /\ IdleMarkers /\ IdleDebounce /\ IdleEdits /\ IdleLookup /\ IdleOverlap /\ IdleStart
IdleOtherNode == IdleFirst /\ IdleMid /\ IdleMarkers /\ IdleDebounce /\ IdleEdits /\ IdleLookup /\ IdleOverlap /\ IdleStart
IdleRestOfNode == IdleMarkers /\ IdleDebounce /\ IdleEdits /\ IdleLookup /\ IdleOverlap /\ IdleStart
IdleOtherMarker == IdleFirst /\ IdleMid /\ IdleNodes /\ IdleDebounce /\ IdleEdits /\ IdleLookup /\ IdleOverlap /\ IdleStart
IdleRestOfMarker == IdleNodes /\ IdleDebounce /\ IdleEdits /\ IdleLookup /\ IdleOverlap /\ IdleStart
IdleOtherDebounce == IdleFirst /\ IdleMid /\ IdleNodes /\ IdleMarkers /\ IdleEdits /\ IdleLookup /\ IdleOverlap /\ IdleStart
IdleRestOfDebounce == IdleNodes /\ IdleMarkers /\ IdleEdits /\ IdleLookup /\ IdleOverlap /\ IdleStart
IdleOtherEdit == IdleFirst /\ IdleMid /\ IdleNodes /\ IdleMarkers /\ IdleDebounce /\ IdleLookup /\ IdleOverlap /\ IdleStart
IdleRestOfEdit == IdleNodes /\ IdleMarkers /\ IdleDebounce /\ IdleLookup /\ IdleOverlap /\ IdleStart
IdleOtherLookup == IdleFirst /\ IdleMid /\ IdleNodes /\ IdleMarkers /\ IdleDebounce /\ IdleEdits /\ IdleOverlap /\ IdleStart
IdleRestOfLookup == IdleNodes /\ IdleMarkers /\ IdleDebounce /\ IdleEdits /\ IdleOverlap /\ IdleStart
IdleOtherOverlap == IdleFirst /\ IdleMid /\ IdleNodes /\ IdleMarkers /\ IdleDebounce /\ IdleEdits /\ IdleLookup /\ IdleStart
IdleRestOfOverlap == IdleNodes /\ IdleMarkers /\ IdleDebounce /\ IdleEdits /\ IdleLookup /\ IdleStart
IdleOtherStart == IdleFirst /\ IdleMid /\ IdleNodes /\ IdleMarkers /\ IdleDebounce /\ IdleEdits /\ IdleLookup /\ IdleOverlap
IdleRestOfStart == IdleNodes /\ IdleMarkers /\ IdleDebounce /\ IdleEdits /\ IdleLookup /\ IdleOverlap
\* ==== end of the idle states ====
IdleLater  == IdleMid /\ IdleLast

(***************************************************************************)
(* The editor (src/js/editor.js).                                          *)
(***************************************************************************)
MAX_HISTORY == 50

\* Markdown handed to Editor.setContent by an import (PDF images arrive as
\* centered <p><img></p> fragments).
ImportDocs == { <<"x", "H1">>, <<"H1", "x", "H2">> }

\* The other components take no step while the editor does.
NotEditor == UNCHANGED <<codecVars, fmtVars, asmVars, scanVars, listVars, laterVars>>

EditorInit ==
    /\ value = <<>>
    /\ imagesCollapsed = FALSE
    /\ imageStore = EmptyStore
    /\ history = <<>>
    /\ historyIndex = -1

\* history[historyIndex] of the code (0-based; undefined when out of range).
HistoryAt(h, idx) == IF idx >= 0 /\ idx < Len(h) THEN <<h[idx + 1]>> ELSE <<>>

\* A saveToHistory that never drops the oldest entry.
saveToHistoryUncapped(h, idx, currentContent) ==
    IF HistoryAt(h, idx) = <<currentContent>> THEN [history |-> h, historyIndex |-> idx]
    ELSE LET cut == IF idx < Len(h) - 1 THEN SubSeq(h, 1, idx + 1) ELSE h
         IN  [history |-> Append(cut, currentContent), historyIndex |-> idx + 1]
\* saveToHistory(): the history and index it leaves for the current content.
saveToHistory(h, idx, currentContent) ==
    IF HistoryAt(h, idx) = <<currentContent>> THEN [history |-> h, historyIndex |-> idx]
    ELSE LET cut    == IF idx < Len(h) - 1 THEN SubSeq(h, 1, idx + 1) ELSE h
             pushed == Append(cut, currentContent)
         IN  IF Len(pushed) > MAX_HISTORY
             THEN [history |-> Tail(pushed), historyIndex |-> idx]
             ELSE [history |-> pushed, historyIndex |-> idx + 1]

\* Editor.setContent(content), as called by the PDF and DOCX imports.
SetContent ==
    \E content \in ImportDocs :
        /\ value' = content
        /\ imagesCollapsed' = FALSE
        /\ imageStore' = EmptyStore
        /\ UNCHANGED <<history, historyIndex>>
        /\ NotEditor

\* toggleImageCollapse(), "Show images" branch.
ToggleExpand ==
    /\ imagesCollapsed
    /\ value' = restoreImages(value, imageStore)
    /\ imagesCollapsed' = FALSE
    /\ UNCHANGED <<imageStore, history, historyIndex>>
    /\ NotEditor

\* toggleImageCollapse(), "Hide images" branch: the store is cleared, then
\* collapseImages fills it.
ToggleCollapse ==
    /\ ~imagesCollapsed
    /\ \E rnd \in SeqsOfLen(GenIds, DrawsNeeded(value)) :
          LET r == collapseImages(value, EmptyStore, rnd)
          IN  /\ value' = r.out
              /\ imageStore' = r.store
    /\ imagesCollapsed' = TRUE
    /\ UNCHANGED <<history, historyIndex>>
    /\ NotEditor

\* The 'input' listener after the user's edit changed the textarea to newValue.
InputEvent(newValue) ==
    /\ Len(history) < MaxEdits
    /\ value' = newValue
    /\ LET s == saveToHistory(history, historyIndex, newValue)
       IN  /\ history' = s.history
           /\ historyIndex' = s.historyIndex
    /\ UNCHANGED <<imagesCollapsed, imageStore>>
    /\ NotEditor

\* The user types a character at the end of the text.
TypeChar == InputEvent(Append(value, "x"))

\* undo()
Undo ==
    /\ historyIndex > 0
    /\ historyIndex' = historyIndex - 1
    /\ value' = history[historyIndex' + 1]
    /\ UNCHANGED <<imagesCollapsed, imageStore, history>>
    /\ NotEditor

\* redo()
Redo ==
    /\ historyIndex < Len(history) - 1
    /\ historyIndex' = historyIndex + 1
    /\ value' = history[historyIndex' + 1]
    /\ UNCHANGED <<imagesCollapsed, imageStore, history>>
    /\ NotEditor

\* Editor.getContent() of the public API, as called by Export.generateHtml and
\* Export.downloadMarkdown.
GetContent ==
    IF imagesCollapsed THEN restoreImages(value, imageStore) ELSE value

Init ==
    /\ EditorInit
    /\ IdleCodec /\ IdleFmt /\ IdleAsm /\ IdleScan /\ IdleLists /\ IdleLater

Next ==
    \/ SetContent
    \/ ToggleExpand
    \/ ToggleCollapse
    \/ TypeChar
    \/ Undo
    \/ Redo

Spec == Init /\ [][Next]_vars

(***************************************************************************)
(* C1: whatever the user did (import, hide/show images, typing, undo,      *)
(* redo), the text Editor.getContent hands to the export holds no          *)
(* placeholder token issued by a collapse pass.                            *)
(***************************************************************************)
ExportNeverLeaksPlaceholder == ~HasCollapsedToken(GetContent)

(***************************************************************************)
(* The codec as pure functions: collapse passes (the "Hide images" branch  *)
(* of toggleImageCollapse: clear the store, collapseImages) and            *)
(* restoreImages, applied to bounded working texts.                        *)
(***************************************************************************)
\* Pieces a working text is built from: plain text, a centered HTML image, a
\* Markdown data-URL image, a parenthesised data URL, and text that already
\* looks like a placeholder.
Fragments ==
    { <<"x">>, <<"!">>, <<"H1">>,
      <<"!", "[", "x", "]", "(", "D1", ")">>,
      <<"(", "D2", ")">>,
      <<"[", "K", "img-1", "]">>,
      <<"[", "K", "constructor", "]">> }

CodecInputs == { Flatten(parts) : parts \in SeqsUpTo(Fragments, MaxParts) }

NotCodec == UNCHANGED <<edVars, fmtVars, asmVars, scanVars, listVars, laterVars>>

CodecInit ==
    /\ \E x \in CodecInputs : cTexts = <<x>>
    /\ cStores = <<EmptyStore>>
    /\ cOps = <<>>
    /\ cIds = <<>>
    /\ IdleEditor /\ IdleFmt /\ IdleAsm /\ IdleScan /\ IdleLists /\ IdleLater

CountOp(ops, op) == Cardinality({ k \in 1..Len(ops) : ops[k] = op })

\* A collapse pass: imageStore = {}; collapseImages(currentContent).
CollapsePass ==
    /\ CountOp(cOps, "collapse") < 2
    /\ CountOp(cOps, "restore") = 0
    /\ \E rnd \in SeqsOfLen(GenIds, DrawsNeeded(Last(cTexts))) :
          LET r == collapseImages(Last(cTexts), EmptyStore, rnd)
          IN  /\ cTexts' = Append(cTexts, r.out)
              /\ cStores' = Append(cStores, r.store)
              /\ cIds' = Append(cIds, rnd)
    /\ cOps' = Append(cOps, "collapse")
    /\ NotCodec

\* Between two passes the user adds an image to the collapsed text.
PasteImage ==
    /\ cOps = <<"collapse">>
    /\ cTexts' = Append(cTexts, Append(Last(cTexts), "H2"))
    /\ cStores' = Append(cStores, Last(cStores))
    /\ cIds' = Append(cIds, <<>>)
    /\ cOps' = Append(cOps, "paste")
    /\ NotCodec

\* restoreImages(content) on the current store.
RestorePass ==
    /\ CountOp(cOps, "restore") < 2
    /\ cTexts' = Append(cTexts, restoreImages(Last(cTexts), Last(cStores)))
    /\ cStores' = Append(cStores, Last(cStores))
    /\ cIds' = Append(cIds, <<>>)
    /\ cOps' = Append(cOps, "restore")
    /\ NotCodec

CodecNext ==
    \/ CollapsePass
    \/ PasteImage
    \/ RestorePass

SpecCodec == CodecInit /\ [][CodecNext]_vars

\* Whether token occurs in text, at any position.
Occurs(token, text) ==
    \E i \in 1..Len(text) :
        i + Len(token) - 1 <= Len(text) /\ SubSeq(text, i, i + Len(token) - 1) = token

TokenId(token) == SubSeq(token, 3, Len(token) - 1)

(***************************************************************************)
(* C2: restoreImages(collapseImages(x)), with the store that collapse      *)
(* filled, is x, for every text x with zero or more data-URL images.       *)
(***************************************************************************)
RestoreOfCollapseIsIdentity ==
    cOps = <<"collapse", "restore">> => cTexts[3] = cTexts[1]

(***************************************************************************)
(* C3: after two collapse passes with no restore between them the store    *)
(* holds exactly the second pass's entries, no placeholder of the first    *)
(* pass is resolvable, and a restore leaves the first pass's placeholders  *)
(* in the text while it resolves those of the second pass.                 *)
(***************************************************************************)
SecondPassReplacesStore ==
    LET n      == Len(cOps)
        ids1   == { cIds[1][k] : k \in 1..Len(cIds[1]) }
        ids2   == { cIds[n - 1][k] : k \in 1..Len(cIds[n - 1]) }
        before == cTexts[n - 1]               \* the text the second pass found
        first  == { t \in Tokens(before) : \E g \in ids1 : t = Placeholder(<<g>>) }
        store2 == cStores[n]
    IN  (n >= 3 /\ cOps[1] = "collapse" /\ cOps[n - 1] = "collapse" /\ cOps[n] = "restore")
        => /\ DOMAIN store2 = { <<g>> : g \in ids2 }
           /\ \A t \in first : TokenId(t) \notin DOMAIN store2
           /\ \A t \in first : Occurs(t, cTexts[n + 1])
           /\ \A g \in ids2 \ ids1 : ~Occurs(Placeholder(<<g>>), cTexts[n + 1])

(***************************************************************************)
(* C4: restoreImages returns unchanged every placeholder token whose id    *)
(* the store does not hold, whatever the id and also on an empty store.    *)
(***************************************************************************)
UnknownPlaceholderUnchanged ==
    LET n       == Len(cOps)
        t       == cTexts[n]
        store   == cStores[n]
        unknown == { tok \in Tokens(t) : TokenId(tok) \notin DOMAIN store }
    IN  (n >= 1 /\ cOps[n] = "restore")
        => /\ \A tok \in unknown : restoreImages(tok, store) = tok
           /\ unknown = Tokens(t) => cTexts[n + 1] = t

(***************************************************************************)
(* C5: restoreImages leaves the store as it is and is idempotent:          *)
(* restoring a restored text changes nothing.                              *)
(***************************************************************************)
RestoreIsIdempotent ==
    LET n == Len(cOps)
    IN  (n >= 2 /\ cOps[n - 1] = "restore" /\ cOps[n] = "restore")
        => /\ cStores[n + 1] = cStores[n - 1]
           /\ cTexts[n + 1] = cTexts[n]

(***************************************************************************)
(* The Markdown post-formatter (src/js/pdf-converter.js, formatMarkdown).  *)
(* A string is a sequence of characters: "NL" a line feed, "SP" a space,   *)
(* "TAB" a tab, "w" a word character (\w), "-" a hyphen.                   *)
(***************************************************************************)
FmtChars == {"NL", "SP", "TAB", "w", "-"}
Blank    == {"SP", "TAB"}            \* [ \t]
White    == {"NL", "SP", "TAB"}      \* what trim() strips

\* The length of the run of characters of S that starts at i.
RECURSIVE RunLen(_, _, _)
RunLen(s, i, S) ==
    IF i > Len(s) \/ s[i] \notin S THEN 0 ELSE 1 + RunLen(s, i + 1, S)

\* .replace(/\n{3,}/g, '\n\n')
RECURSIVE CollapseNewlines(_, _)
CollapseNewlines(s, i) ==
    IF i > Len(s) THEN <<>>
    ELSE LET n == RunLen(s, i, {"NL"})
         IN  IF n >= 3 THEN <<"NL", "NL">> \o CollapseNewlines(s, i + n)
             ELSE <<s[i]>> \o CollapseNewlines(s, i + 1)

\* .replace(/(\w)-\n(\w)/g, '$1$2')
RECURSIVE RejoinHyphens(_, _)
RejoinHyphens(s, i) ==
    IF i > Len(s) THEN <<>>
    ELSE IF /\ i + 3 <= Len(s)
            /\ s[i] = "w" /\ s[i + 1] = "-" /\ s[i + 2] = "NL" /\ s[i + 3] = "w"
         THEN <<"w", "w">> \o RejoinHyphens(s, i + 4)
         ELSE <<s[i]>> \o RejoinHyphens(s, i + 1)

\* .replace(/[ \t]+/g, ' ')
RECURSIVE CollapseBlanks(_, _)
CollapseBlanks(s, i) ==
    IF i > Len(s) THEN <<>>
    ELSE LET n == RunLen(s, i, Blank)
         IN  IF n >= 1 THEN <<"SP">> \o CollapseBlanks(s, i + n)
             ELSE <<s[i]>> \o CollapseBlanks(s, i + 1)

\* String.prototype.trim()
RECURSIVE TrimStart(_)
TrimStart(s) == IF s # <<>> /\ Head(s) \in White THEN TrimStart(Tail(s)) ELSE s
RECURSIVE TrimEnd(_)
TrimEnd(s) ==
    IF s # <<>> /\ Last(s) \in White THEN TrimEnd(SubSeq(s, 1, Len(s) - 1)) ELSE s
Trim(s) == TrimEnd(TrimStart(s))

\* .split('\n')
RECURSIVE SplitLines(_)
SplitLines(s) ==
    LET k == FirstIn(s, 1, {"NL"})
    IN  IF k = 0 THEN <<s>>
        ELSE <<SubSeq(s, 1, k - 1)>> \o SplitLines(SubSeq(s, k + 1, Len(s)))

\* .join('\n')
RECURSIVE JoinLines(_)
JoinLines(lines) ==
    IF Len(lines) = 1 THEN lines[1]
    ELSE lines[1] \o <<"NL">> \o JoinLines(Tail(lines))

\* .split('\n').map(line => line.trim()).join('\n')
TrimLines(s) ==
    LET lines == SplitLines(s)
    IN  JoinLines([k \in 1..Len(lines) |-> Trim(lines[k])])

\* formatMarkdown(text)
formatMarkdown(text) ==
    Trim(TrimLines(CollapseBlanks(RejoinHyphens(CollapseNewlines(text, 1), 1), 1)))

NotFmt == UNCHANGED <<edVars, codecVars, asmVars, scanVars, listVars, laterVars>>

FmtInit ==
    /\ fIn \in SeqsUpTo(FmtChars, MaxFmtLen)
    /\ fOut = <<>>
    /\ IdleEditor /\ IdleCodec /\ IdleAsm /\ IdleScan /\ IdleLists /\ IdleLater

\* formatMarkdown applied to the input, then to its own output.
ApplyFormat ==
    /\ Len(fOut) < 2
    /\ fOut' = Append(fOut, formatMarkdown(IF fOut = <<>> THEN fIn ELSE Last(fOut)))
    /\ UNCHANGED fIn
    /\ NotFmt

FmtNext == ApplyFormat

SpecFormat == FmtInit /\ [][FmtNext]_vars

(***************************************************************************)
(* C6: formatMarkdown is idempotent: formatting an already formatted text  *)
(* returns it unchanged.                                                   *)
(***************************************************************************)
FormatIsIdempotent == Len(fOut) = 2 => fOut[2] = fOut[1]

(***************************************************************************)
(* The operator scan of extractImagesWithPositions                         *)
(* (src/js/pdf-converter.js): one step per operator of the page's          *)
(* operator list, fnArray being the operators scanned so far.              *)
(***************************************************************************)
Identity == <<1, 0, 0, 1, 0, 0>>

\* Arguments of the transform operators a page may hold: a translation by
\* dy = 100 and a scaling with a translation.
TransformArgs == { <<1, 0, 0, 1, 0, 100>>, <<2, 0, 0, 2, 0, 50>> }
ImageNames    == {"ref1", "ref2"}

OpSave          == [fn |-> "save", args |-> <<>>]
OpRestore       == [fn |-> "restore", args |-> <<>>]
OpTransform(m)  == [fn |-> "transform", args |-> m]
OpPaint(name)   == [fn |-> "paintImageXObject", args |-> <<name>>]

\* multiplyMatrices(a, b); index k of the code is index k + 1 here.
multiplyMatrices(a, b) ==
    << a[1] * b[1] + a[3] * b[2],
       a[2] * b[1] + a[4] * b[2],
       a[1] * b[3] + a[3] * b[4],
       a[2] * b[3] + a[4] * b[4],
       a[1] * b[5] + a[3] * b[6] + a[5],
       a[2] * b[5] + a[4] * b[6] + a[6] >>

\* ctmStack.push([...ctmStack[ctmStack.length - 1]])
ctmAfterSave(stack) == Append(stack, Last(stack))

\* A restore that leaves the stack alone, and one that pops without the guard.
ctmAfterRestoreNoPop(stack) == stack
ctmAfterRestoreUnguarded(stack) == SubSeq(stack, 1, Len(stack) - 1)
\* if (ctmStack.length > 1) ctmStack.pop()
ctmAfterRestore(stack) ==
    IF Len(stack) > 1 THEN SubSeq(stack, 1, Len(stack) - 1) ELSE stack

\* ctmStack[ctmStack.length - 1] = multiplyMatrices(currentCTM, args)
ctmAfterTransform(stack, args) ==
    [stack EXCEPT ![Len(stack)] = multiplyMatrices(@, args)]

\* A variant in which the last paint of a name wins.
imageOpsAfterPaintLastWins(ops, imageName, yPos) ==
    IF \E k \in 1..Len(ops) : ops[k].name = imageName
    THEN [k \in 1..Len(ops) |->
             IF ops[k].name = imageName THEN [name |-> imageName, y |-> yPos] ELSE ops[k]]
    ELSE Append(ops, [name |-> imageName, y |-> yPos])
\* if (imageName && !imageOps.some(io => io.name === imageName)) imageOps.push(...)
imageOpsAfterPaint(ops, imageName, yPos) ==
    IF \E k \in 1..Len(ops) : ops[k].name = imageName THEN ops
    ELSE Append(ops, [name |-> imageName, y |-> yPos])

NotScan == UNCHANGED <<edVars, codecVars, fmtVars, asmVars, listVars, laterVars>>

ScanInit ==
    /\ fnArray = <<>>
    /\ ctmStack = <<Identity>>
    /\ imageOps = <<>>
    /\ scanThrew = FALSE
    /\ IdleEditor /\ IdleCodec /\ IdleFmt /\ IdleAsm /\ IdleLists /\ IdleLater

\* The loop goes on while operators are left and nothing was thrown.
Scanning == Len(fnArray) < MaxOps /\ ~scanThrew

\* Reading the top of an empty stack yields undefined; spreading it, indexing
\* it or multiplying it throws, and the throw leaves the loop.
Throw ==
    /\ scanThrew' = TRUE
    /\ UNCHANGED <<ctmStack, imageOps>>

\* op === OPS.save
ScanSave ==
    /\ Scanning
    /\ fnArray' = Append(fnArray, OpSave)
    /\ IF ctmStack = <<>> THEN Throw
       ELSE /\ ctmStack' = ctmAfterSave(ctmStack)
            /\ UNCHANGED <<imageOps, scanThrew>>
    /\ NotScan

\* op === OPS.restore
ScanRestore ==
    /\ Scanning
    /\ fnArray' = Append(fnArray, OpRestore)
    /\ ctmStack' = ctmAfterRestore(ctmStack)
    /\ UNCHANGED <<imageOps, scanThrew>>
    /\ NotScan

\* op === OPS.transform
ScanTransform ==
    /\ Scanning
    /\ \E args \in TransformArgs :
          /\ fnArray' = Append(fnArray, OpTransform(args))
          /\ IF ctmStack = <<>> THEN Throw
             ELSE /\ ctmStack' = ctmAfterTransform(ctmStack, args)
                  /\ UNCHANGED <<imageOps, scanThrew>>
    /\ NotScan

\* op === OPS.paintImageXObject || op === OPS.paintJpegXObject
ScanPaint ==
    /\ Scanning
    /\ \E imageName \in ImageNames :
          /\ fnArray' = Append(fnArray, OpPaint(imageName))
          /\ IF ctmStack = <<>> THEN Throw
             ELSE /\ imageOps' = imageOpsAfterPaint(imageOps, imageName, Last(ctmStack)[6])
                  /\ UNCHANGED <<ctmStack, scanThrew>>
    /\ NotScan

ScanNext ==
    \/ ScanSave
    \/ ScanRestore
    \/ ScanTransform
    \/ ScanPaint

SpecScan == ScanInit /\ [][ScanNext]_vars

\* The first index >= from, and the last index < before, of an operator fn; 0 if none.
RECURSIVE FirstFn(_, _, _)
FirstFn(ops, from, fn) ==
    IF from > Len(ops) THEN 0
    ELSE IF ops[from].fn = fn THEN from
    ELSE FirstFn(ops, from + 1, fn)
RECURSIVE LastFnBefore(_, _, _)
LastFnBefore(ops, before, fn) ==
    IF before <= 1 THEN 0
    ELSE IF ops[before - 1].fn = fn THEN before - 1
    ELSE LastFnBefore(ops, before - 1, fn)

\* What is left of an operator list once every closed save scope (a save, its
\* matching restore and all between them) and every restore that matches no
\* save is struck out: the operators of the scopes still open.
RECURSIVE OpenScopes(_)
OpenScopes(ops) ==
    LET j == FirstFn(ops, 1, "restore")
    IN  IF j = 0 THEN ops
        ELSE LET i == LastFnBefore(ops, j, "save")
             IN  IF i = 0
                 THEN OpenScopes(SubSeq(ops, 1, j - 1) \o SubSeq(ops, j + 1, Len(ops)))
                 ELSE OpenScopes(SubSeq(ops, 1, i - 1) \o SubSeq(ops, j + 1, Len(ops)))

\* The composition, in order, of the transforms of an operator list.
RECURSIVE Composition(_)
Composition(ops) ==
    IF ops = <<>> THEN Identity
    ELSE LET m == Composition(SubSeq(ops, 1, Len(ops) - 1))
         IN  IF Last(ops).fn = "transform" THEN multiplyMatrices(m, Last(ops).args)
             ELSE m

\* The translation-Y of the transforms applied inside the save scopes open
\* after the operators ops.
OpenTranslationY(ops) == Composition(OpenScopes(ops))[6]

\* The index of the first paint operator naming the image.
RECURSIVE FirstPaint(_, _, _)
FirstPaint(ops, from, name) ==
    IF from > Len(ops) THEN 0
    ELSE IF ops[from] = OpPaint(name) THEN from
    ELSE FirstPaint(ops, from + 1, name)

ExampleOps ==
    << OpSave, OpTransform(<<1, 0, 0, 1, 0, 100>>), OpPaint("ref1"),
       OpRestore, OpPaint("ref2") >>

(***************************************************************************)
(* C8: the current matrix is the composition of the transforms applied     *)
(* inside the save scopes still open (a restore brings back the matrix of  *)
(* its save), the y recorded for an image is that matrix's translation-Y   *)
(* where the image is painted, and save, transform(dy=100), paint ref1,    *)
(* restore, paint ref2 records ref1 at y = 100 and ref2 at y = 0.          *)
(***************************************************************************)
ImageYFollowsOpenScopes ==
    /\ ~scanThrew
    /\ Last(ctmStack) = Composition(OpenScopes(fnArray))
    /\ \A k \in 1..Len(imageOps) :
          LET p == FirstPaint(fnArray, 1, imageOps[k].name)
          IN  p > 0 /\ imageOps[k].y = OpenTranslationY(SubSeq(fnArray, 1, p - 1))
    /\ fnArray = ExampleOps =>
          imageOps = << [name |-> "ref1", y |-> 100], [name |-> "ref2", y |-> 0] >>

\* The example list was scanned to its end.
ExampleScanned ==
    /\ fnArray = ExampleOps
    /\ imageOps = << [name |-> "ref1", y |-> 100], [name |-> "ref2", y |-> 0] >>
    /\ Last(ctmStack) = Identity

\* The names painted by the operators scanned so far.
PaintedNames == { fnArray[k].args[1] : k \in { j \in 1..Len(fnArray) : fnArray[j].fn = "paintImageXObject" } }

\* The number of paint operators naming the image.
PaintCount(name) == Cardinality({ k \in 1..Len(fnArray) : fnArray[k] = OpPaint(name) })

(***************************************************************************)
(* C18: each painted name is recorded exactly once, however many paint     *)
(* operators name it, with the translation-Y the current matrix had at the *)
(* first of them; a paint of a name already recorded leaves the records    *)
(* as they are.                                                            *)
(***************************************************************************)
FirstPaintWins ==
    /\ Len(imageOps) = Cardinality(PaintedNames)
    /\ \A name \in PaintedNames :
          \E k \in 1..Len(imageOps) :
             /\ imageOps[k] = [name |-> name,
                               y |-> OpenTranslationY(
                                        SubSeq(fnArray, 1, FirstPaint(fnArray, 1, name) - 1))]
             /\ \A j \in 1..Len(imageOps) : imageOps[j].name = name => j = k

\* An image was painted, then painted again under another translation-Y.
RepaintedElsewhere ==
    /\ Len(fnArray) >= 3
    /\ fnArray[1] = OpPaint("ref1")
    /\ Last(fnArray) = OpPaint("ref1")
    /\ PaintCount("ref1") >= 2
    /\ OpenTranslationY(SubSeq(fnArray, 1, Len(fnArray) - 1)) # 0
    /\ imageOps = << [name |-> "ref1", y |-> 0] >>

\* The number of save scopes open after the operators ops, a restore with no
\* open scope closing nothing.
RECURSIVE OpenDepth(_)
OpenDepth(ops) ==
    IF ops = <<>> THEN 0
    ELSE LET d == OpenDepth(SubSeq(ops, 1, Len(ops) - 1))
         IN  CASE Last(ops).fn = "save"    -> d + 1
               [] Last(ops).fn = "restore" -> IF d > 0 THEN d - 1 ELSE 0
               [] OTHER                    -> d

(***************************************************************************)
(* C9: whatever the operator list, also with more restores than saves, the *)
(* transform stack holds at least one matrix at every step; a restore with *)
(* no open save is ignored (one matrix per open scope above the base) and  *)
(* nothing is thrown.                                                      *)
(***************************************************************************)
StackNeverEmpty ==
    /\ Len(ctmStack) >= 1
    /\ Len(ctmStack) = 1 + OpenDepth(fnArray)
    /\ ~scanThrew

\* A list with a surplus restore was scanned, and the scan went on to record
\* the image painted after it.
SurplusRestoreScanned ==
    /\ Len(fnArray) >= 3
    /\ fnArray[1] = OpRestore /\ fnArray[2] = OpRestore
    /\ fnArray[3] = OpPaint("ref1")
    /\ imageOps = << [name |-> "ref1", y |-> 0] >>
    /\ Len(ctmStack) = 1

(***************************************************************************)
(* Page assembly in convertPdfToMarkdown (src/js/pdf-converter.js): the    *)
(* page's text blocks, then its images, are pushed to allContent, which is *)
(* then sorted by descending y.                                            *)
(***************************************************************************)
\* Vertical positions on a page (PDF units, origin at the bottom).
Ys == {300, 500, 650}

\* Whether a sequence of positions is in non-increasing order, as
\* extractImagesWithPositions returns the image positions (it resolves the
\* images in the order of imageOps.sort((a, b) => b.y - a.y)).
Descending(ys) == \A i, j \in 1..Len(ys) : i < j => ys[i] >= ys[j]

\* allContent.push({type: 'text', y: block.y, content: block.text}) for each
\* block, then allContent.push({type: 'image', y: pos.y, content: ...}) for
\* each image; the k-th block's text is "text k", the k-th image "image k".
PushedContent(blocks, imgs) ==
    [k \in 1..Len(blocks) |-> [type |-> "text", y |-> blocks[k], content |-> <<"text", k>>]]
    \o [k \in 1..Len(imgs) |-> [type |-> "image", y |-> imgs[k], content |-> <<"image", k>>]]

\* (a, b) => b.y - a.y
compareFn(a, b) == b.y - a.y

\* An insertion that puts an item ahead of the items it ties with (what a sort
\* that is not stable may do).
RECURSIVE InsertUnstable(_, _)
InsertUnstable(sorted, item) ==
    IF sorted = <<>> THEN <<item>>
    ELSE IF compareFn(Head(sorted), item) < 0
         THEN <<Head(sorted)>> \o InsertUnstable(Tail(sorted), item)
         ELSE <<item>> \o sorted
\* Array.prototype.sort with a comparator is stable (ECMAScript 2019): an item
\* goes after every item the comparator does not put behind it.
RECURSIVE InsertSorted(_, _)
InsertSorted(sorted, item) ==
    IF sorted = <<>> THEN <<item>>
    ELSE IF compareFn(Head(sorted), item) <= 0
         THEN <<Head(sorted)>> \o InsertSorted(Tail(sorted), item)
         ELSE <<item>> \o sorted

\* allContent.sort((a, b) => b.y - a.y)
RECURSIVE SortContent(_)
SortContent(items) ==
    IF items = <<>> THEN <<>>
    ELSE InsertSorted(SortContent(SubSeq(items, 1, Len(items) - 1)), Last(items))

NotAsm == UNCHANGED <<edVars, codecVars, fmtVars, scanVars, listVars, laterVars>>

AsmInit ==
    /\ textBlocks \in SeqsUpTo(Ys, MaxItems)
    /\ pageImages \in { ys \in SeqsUpTo(Ys, MaxItems) : Descending(ys) }
    /\ Len(textBlocks) + Len(pageImages) <= MaxItems
    /\ allContent = <<>>
    /\ aPc = "extracted"
    /\ IdleEditor /\ IdleCodec /\ IdleFmt /\ IdleScan /\ IdleLists /\ IdleLater

\* The body of the page loop after extraction: merge, then sort.
AssemblePage ==
    /\ aPc = "extracted"
    /\ allContent' = SortContent(PushedContent(textBlocks, pageImages))
    /\ aPc' = "sorted"
    /\ UNCHANGED <<textBlocks, pageImages>>
    /\ NotAsm

AsmNext == AssemblePage

SpecAssemble == AsmInit /\ [][AsmNext]_vars

\* The position at which an item was pushed.
PushedAt(item) ==
    LET pushed == PushedContent(textBlocks, pageImages)
    IN  CHOOSE k \in 1..Len(pushed) : pushed[k] = item

ExampleItems ==
    << [type |-> "text",  y |-> 500, content |-> "A"],
       [type |-> "image", y |-> 650, content |-> "I"],
       [type |-> "text",  y |-> 500, content |-> "B"] >>

(***************************************************************************)
(* C7: a page's assembled content holds exactly the pushed items, in       *)
(* non-increasing y, items of equal y in the order they were pushed; the   *)
(* items A (y 500), I (y 650), B (y 500) pushed in that order come out as  *)
(* I, A, B.                                                                *)
(***************************************************************************)
ContentSortedStable ==
    /\ aPc = "sorted" =>
          LET pushed == PushedContent(textBlocks, pageImages)
          IN  /\ Len(allContent) = Len(pushed)
              /\ { allContent[k] : k \in 1..Len(allContent) }
                     = { pushed[k] : k \in 1..Len(pushed) }
              /\ \A i, j \in 1..Len(allContent) :
                    i < j => /\ allContent[i].y >= allContent[j].y
                             /\ allContent[i].y = allContent[j].y
                                    => PushedAt(allContent[i]) < PushedAt(allContent[j])
    /\ LET out == SortContent(ExampleItems)
       IN  << out[1].content, out[2].content, out[3].content >> = << "I", "A", "B" >>

\* Two text blocks at y 500 and an image at y 650 were assembled: the image
\* first, then the blocks in their order.
TieAssembled ==
    /\ aPc = "sorted"
    /\ textBlocks = <<500, 500>>
    /\ pageImages = <<650>>
    /\ << allContent[1].content, allContent[2].content, allContent[3].content >>
           = << <<"image", 1>>, <<"text", 1>>, <<"text", 2>> >>

(***************************************************************************)
(* The DOCX list normalizer (src/js/export.js): htmlToMarkdown parses the  *)
(* HTML into a container, mergeConsecutiveLists merges adjacent lists of   *)
(* one kind, and the lists are rendered by processListItems.               *)
(* An element is [tagName, items]; a list item is [text, srcNum], srcNum   *)
(* being the number the item bears in the source markup (its place in the  *)
(* list it came in).                                                       *)
(***************************************************************************)
ListTags == {"OL", "UL"}

\* The k-th top-level element of the HTML, holding n list items.
ListElement(tag, k, n) ==
    [tagName |-> tag, items |-> [m \in 1..n |-> [text |-> <<k, m>>, srcNum |-> m]]]
Paragraph == [tagName |-> "P", items |-> <<>>]

\* Element kinds mammoth emits at top level: a one-item or two-item ordered
\* list, a one-item unordered list, a paragraph.
ElementKinds == {"OL1", "OL2", "UL1", "P"}
ElementOfKind(kind, k) ==
    CASE kind = "OL1" -> ListElement("OL", k, 1)
      [] kind = "OL2" -> ListElement("OL", k, 2)
      [] kind = "UL1" -> ListElement("UL", k, 1)
      [] OTHER        -> Paragraph

HtmlInputs ==
    { [k \in 1..Len(kinds) |-> ElementOfKind(kinds[k], k)] :
          kinds \in SeqsUpTo(ElementKinds, MaxElems) }

\* One merge in the loop body: next's child nodes move to the end of current,
\* next.remove(), i--, children.splice(i + 2, 1).  st.i is the loop index
\* (0-based, as in the code).
MergeNext(st) ==
    LET current == st.children[st.i + 1]
        next    == st.children[st.i + 2]
        i2      == st.i - 1
    IN  [dom      |-> [st.dom EXCEPT ![current].items = @ \o st.dom[next].items,
                                      ![next].items = <<>>],
         order    |-> SelectSeq(st.order, LAMBDA n : n # next),
         children |-> SubSeq(st.children, 1, i2 + 2)
                          \o SubSeq(st.children, i2 + 4, Len(st.children)),
         i        |-> i2]

\* The loop without "i--": after a merge it moves on to the next position.
RECURSIVE MergeLoopNoRecheck(_)
MergeLoopNoRecheck(st) ==
    IF ~(st.i < Len(st.children) - 1) THEN st
    ELSE LET current == st.children[st.i + 1]
             next    == st.children[st.i + 2]
             same    == /\ st.dom[current].tagName \in ListTags
                        /\ st.dom[current].tagName = st.dom[next].tagName
             body    == IF same THEN [MergeNext(st) EXCEPT !.i = st.i] ELSE st
         IN  MergeLoopNoRecheck([body EXCEPT !.i = @ + 1])
\* for (let i = 0; i < children.length - 1; i++) { ... }
RECURSIVE MergeLoop(_)
MergeLoop(st) ==
    IF ~(st.i < Len(st.children) - 1) THEN st
    ELSE LET current == st.children[st.i + 1]
             next    == st.children[st.i + 2]
             same    == /\ st.dom[current].tagName \in ListTags
                        /\ st.dom[current].tagName = st.dom[next].tagName
             body    == IF same THEN MergeNext(st) ELSE st
         IN  MergeLoop([body EXCEPT !.i = @ + 1])

\* mergeConsecutiveLists(container): children = Array.from(container.children),
\* then the loop.
mergeConsecutiveLists(d, ord) ==
    MergeLoop([dom |-> d, order |-> ord, children |-> ord, i |-> 0])

\* processListItems(listElement, type, 0): one line per <li>, '- ' for a 'ul',
\* itemNumber + '. ' for an 'ol', itemNumber counting from 1.
RECURSIVE ListLines(_, _, _)
ListLines(items, type, itemNumber) ==
    IF items = <<>> THEN <<>>
    ELSE IF type = "ul"
         THEN <<[marker |-> "-", text |-> Head(items).text]>>
                  \o ListLines(Tail(items), type, itemNumber)
         ELSE <<[marker |-> itemNumber, text |-> Head(items).text]>>
                  \o ListLines(Tail(items), type, itemNumber + 1)

processListItems(element, type) == ListLines(element.items, type, 1)

\* processNodesWithState over the container: what each top-level element
\* renders to (the lines of a list; nothing is kept of a paragraph here).
RenderElement(element) ==
    CASE element.tagName = "OL" -> processListItems(element, "ol")
      [] element.tagName = "UL" -> processListItems(element, "ul")
      [] OTHER                  -> <<>>

NotLists == UNCHANGED <<edVars, codecVars, fmtVars, asmVars, scanVars, laterVars>>

ListsInit ==
    /\ html \in HtmlInputs
    /\ dom = <<>> /\ order = <<>> /\ children = <<>> /\ rendered = <<>>
    /\ lPc = "start"
    /\ IdleEditor /\ IdleCodec /\ IdleFmt /\ IdleAsm /\ IdleScan /\ IdleLater

\* htmlToMarkdown(html): temp.innerHTML = html; mergeConsecutiveLists(temp);
\* processNodesWithState(temp.childNodes, state).
HtmlToMarkdown ==
    /\ lPc = "start"
    /\ LET merged == mergeConsecutiveLists(html, [k \in 1..Len(html) |-> k])
       IN  /\ dom' = merged.dom
           /\ order' = merged.order
           /\ children' = merged.children
           /\ rendered' = [k \in 1..Len(merged.order) |->
                              RenderElement(merged.dom[merged.order[k]])]
    /\ lPc' = "done"
    /\ UNCHANGED html
    /\ NotLists

ListsNext == HtmlToMarkdown

SpecLists == ListsInit /\ [][ListsNext]_vars


\* The last element of the run of same-kind lists that starts at a.
RunEnd(a) ==
    CHOOSE b \in a..Len(html) :
        /\ \A k \in a..b : html[k].tagName = html[a].tagName
        /\ b = Len(html) \/ html[b + 1].tagName # html[a].tagName

\* The items of elements a..b, in document order.
RECURSIVE ItemsOf(_, _)
ItemsOf(a, b) == IF a > b THEN <<>> ELSE html[a].items \o ItemsOf(a + 1, b)

(***************************************************************************)
(* C10: after htmlToMarkdown every run of adjacent top-level lists of one  *)
(* kind is one list element holding the run's items in their order, no two *)
(* adjacent top-level elements are lists of the same kind, and an ordered  *)
(* list renders its items numbered 1, 2, ..., n whatever their numbers in  *)
(* the source.                                                             *)
(***************************************************************************)
ListsMergedAndRenumbered ==
    lPc = "done" =>
        /\ \A k \in 1..(Len(order) - 1) :
              ~( /\ dom[order[k]].tagName \in ListTags
                 /\ dom[order[k]].tagName = dom[order[k + 1]].tagName )
        /\ \A a \in 1..Len(html) :
              (html[a].tagName \in ListTags
                  /\ (a = 1 \/ html[a - 1].tagName # html[a].tagName))
              => /\ \E k \in 1..Len(order) : order[k] = a
                 /\ dom[a].items = ItemsOf(a, RunEnd(a))
                 /\ \A b \in (a + 1)..RunEnd(a) : \A k \in 1..Len(order) : order[k] # b
        /\ \A a \in 1..Len(html) :
              html[a].tagName \notin ListTags => \E k \in 1..Len(order) : order[k] = a
        /\ \A k \in 1..Len(order) :
              dom[order[k]].tagName = "OL"
              => /\ Len(rendered[k]) = Len(dom[order[k]].items)
                 /\ \A m \in 1..Len(rendered[k]) :
                       /\ rendered[k][m].marker = m
                       /\ rendered[k][m].text = dom[order[k]].items[m].text

\* Three adjacent ordered lists (one item, two items, one item) were merged
\* into one list of four items, rendered 1. to 4.
OrderedRunMerged ==
    /\ lPc = "done"
    /\ Len(html) = 3
    /\ \A k \in 1..3 : html[k].tagName = "OL"
    /\ Len(html[2].items) = 2
    /\ order = <<1>>
    /\ [m \in 1..4 |-> rendered[1][m].marker] = <<1, 2, 3, 4>>
    /\ [m \in 1..4 |-> dom[1].items[m].srcNum] = <<1, 1, 2, 1>>

(***************************************************************************)
(* The DOCX table renderer (src/js/export.js): processTable.               *)
(* A table is the sequence of its <tr> rows, a row the sequence of its     *)
(* <th>/<td> cells, a cell the sequence of its child nodes.  Text is a     *)
(* sequence of atoms: "a", "b" ordinary characters, "|" a pipe, "\\|" an   *)
(* escaped pipe, "SP" a space, "NL" a newline, "---" three dashes.         *)
(***************************************************************************)
\* <p>text</p>
ParagraphNode(text) == [tag |-> "p", text |-> text]

\* The cells mammoth emits: one paragraph (here with a pipe in its text), or
\* two paragraphs.
CellKinds == {"P1", "P2"}
CellOfKind(kind) ==
    IF kind = "P1" THEN << ParagraphNode(<<"a", "|", "b">>) >>
    ELSE << ParagraphNode(<<"a">>), ParagraphNode(<<"b">>) >>

TableInputs ==
    LET RowKinds == UNION { SeqsOfLen(CellKinds, c) : c \in 1..MaxCols }
        Tables   == UNION { SeqsOfLen(RowKinds, r) : r \in 1..MaxRows }
    IN  { [r \in 1..Len(t) |-> [c \in 1..Len(t[r]) |-> CellOfKind(t[r][c])]] : t \in Tables }

\* processElement, case 'p': pContent = children().trim(); '' if empty, else
\* pContent + '\n\n'.
ProcessParagraph(node) ==
    LET pContent == Trim(node.text)
    IN  IF pContent = <<>> THEN <<>> ELSE pContent \o <<"NL", "NL">>

\* processNodes(cell.childNodes)
ProcessCellNodes(nodes) == Flatten([k \in 1..Len(nodes) |-> ProcessParagraph(nodes[k])])

\* .replace(/\|/g, '\\|')
EscapePipes(text) == [k \in 1..Len(text) |-> IF text[k] = "|" THEN "\\|" ELSE text[k]]

\* processNodes(cell.childNodes).trim().replace(/\|/g, '\\|')
CellContent(cell) == EscapePipes(Trim(ProcessCellNodes(cell)))

\* cellContents.join(' | ')
RECURSIVE JoinCells(_)
JoinCells(contents) ==
    IF contents = <<>> THEN <<>>
    ELSE IF Len(contents) = 1 THEN contents[1]
    ELSE contents[1] \o <<"SP", "|", "SP">> \o JoinCells(Tail(contents))

\* '| ' + cellContents.join(' | ') + ' |\n'
TableLine(contents) == <<"|", "SP">> \o JoinCells(contents) \o <<"SP", "|", "NL">>

\* The loop of processTable over the rows from row r on.
RECURSIVE TableRowsFrom(_, _, _)
TableRowsFrom(rows, r, isFirstRow) ==
    IF r > Len(rows) THEN <<>>
    ELSE LET cellContents == [c \in 1..Len(rows[r]) |-> CellContent(rows[r][c])]
             separator    == [c \in 1..Len(rows[r]) |-> <<"---">>]
         IN  TableLine(cellContents)
                 \o (IF isFirstRow THEN TableLine(separator) ELSE <<>>)
                 \o TableRowsFrom(rows, r + 1, FALSE)

\* processTable(tableElement)
processTable(rows) == IF Len(rows) = 0 THEN <<>> ELSE TableRowsFrom(rows, 1, TRUE)

NotTable == UNCHANGED <<firstVars, blockVars, gapVars, convVars, importVars, autosaveVars, lastVars>>

TableInit ==
    /\ table \in TableInputs
    /\ tableOut = <<>>
    /\ tPc = "start"
    /\ IdleFirst /\ IdleBlocks /\ IdleGaps /\ IdleConv /\ IdleImport /\ IdleAutosave /\ IdleLast

ProcessTable ==
    /\ tPc = "start"
    /\ tableOut' = processTable(table)
    /\ tPc' = "done"
    /\ UNCHANGED table
    /\ NotTable

TableNext == ProcessTable

SpecTable == TableInit /\ [][TableNext]_vars

\* The lines of a text in which every line ends with a newline.
LinesOf(text) ==
    LET parts == SplitLines(text)
    IN  SubSeq(parts, 1, Len(parts) - 1)

\* How often an atom occurs in a text.
CountAtom(text, atom) == Cardinality({ k \in 1..Len(text) : text[k] = atom })

(***************************************************************************)
(* C11: for a table of R >= 1 rows processTable emits exactly R + 1 lines, *)
(* the second of them the separator, and the separator has as many '---'   *)
(* cells as the first row has cells.                                       *)
(***************************************************************************)
TableEmitsRowsPlusSeparator ==
    tPc = "done" =>
        LET lines == LinesOf(tableOut)
        IN  /\ Len(lines) = Len(table) + 1
            /\ CountAtom(lines[2], "---") = Len(table[1])
            /\ \A k \in 1..Len(lines) : k # 2 => CountAtom(lines[k], "---") = 0

(***************************************************************************)
(* PDF text extraction (src/js/pdf-converter.js): extractTextBlocks and    *)
(* processTextBlock.  A glyph run is [str, x, y, height, bold]; str is a   *)
(* sequence of one-character atoms, "SP" being the space.                  *)
(***************************************************************************)
Lower  == {"a", "b", "i", "v"}
Upper  == {"A", "B", "I", "V"}
Digit  == {"1", "2"}
Letter == Lower \cup Upper
Bullets == {"-", "*b"}                 \* '-' and the bullet glyphs
toLowerCase(c) ==
    CASE c = "A" -> "a" [] c = "B" -> "b" [] c = "I" -> "i" [] c = "V" -> "v"
      [] OTHER -> c

Abs(n) == IF n < 0 THEN -n ELSE n

\* Math.round of a height given in tenths of a point.
RoundTenths(h) == (h + 5) \div 10

\* A test that takes no run for blank.
NeverBlankRun(item) == FALSE
\* !item.str || !item.str.trim()
IsBlankRun(item) == Trim(item.str) = <<>>

\* The item pushed to currentBlock.items (lines 246-252).
BlockItem(item) ==
    [str |-> item.str, x |-> item.x, y |-> item.y,
     fontSize |-> RoundTenths(item.height), bold |-> item.bold]

\* Lines 279-295: group a block's items into lines; a new line starts when
\* the item's y differs from the previous item's by more than 3.
RECURSIVE GroupLines(_, _, _, _)
GroupLines(items, k, currentLine, lastY) ==
    IF k > Len(items)
    THEN IF currentLine # <<>> THEN <<currentLine>> ELSE <<>>
    ELSE IF Abs(items[k].y - lastY) > 3
         THEN (IF currentLine # <<>> THEN <<currentLine>> ELSE <<>>)
                  \o GroupLines(items, k + 1, <<items[k]>>, items[k].y)
         ELSE GroupLines(items, k + 1, Append(currentLine, items[k]), items[k].y)

\* lineItems.sort((a, b) => a.x - b.x), a stable sort.
RECURSIVE InsertByX(_, _)
InsertByX(sorted, item) ==
    IF sorted = <<>> THEN <<item>>
    ELSE IF Head(sorted).x - item.x <= 0
         THEN <<Head(sorted)>> \o InsertByX(Tail(sorted), item)
         ELSE <<item>> \o sorted
RECURSIVE SortByX(_)
SortByX(items) ==
    IF items = <<>> THEN <<>>
    ELSE InsertByX(SortByX(SubSeq(items, 1, Len(items) - 1)), Last(items))

\* Lines 303-321.  lastEndX2 is twice lastEndX (avgCharWidth = fontSize * 0.5
\* makes lastEndX a multiple of one half); gap > avgCharWidth * 0.2 is
\* 10 * gap > fontSize.
RECURSIVE JoinRuns(_, _, _)
JoinRuns(lineItems, i, lastEndX2) ==
    IF i > Len(lineItems) THEN <<>>
    ELSE LET item == lineItems[i]
             gap2 == 2 * item.x - lastEndX2
         IN  (IF i > 1 /\ 5 * gap2 > item.fontSize THEN <<"SP">> ELSE <<>>)
                 \o item.str
                 \o JoinRuns(lineItems, i + 1, 2 * item.x + Len(item.str) * item.fontSize)

\* text.replace(/(L)(R)/g, '$1 $2') for one-character classes L and R.
RECURSIVE SpaceBetween(_, _, _, _)
SpaceBetween(text, i, L, R) ==
    IF i > Len(text) THEN <<>>
    ELSE IF i < Len(text) /\ text[i] \in L /\ text[i + 1] \in R
         THEN <<text[i], "SP", text[i + 1]>> \o SpaceBetween(text, i + 2, L, R)
         ELSE <<text[i]>> \o SpaceBetween(text, i + 1, L, R)

\* text.replace(/([a-z])([A-Z][a-z])/g, '$1 $2')
RECURSIVE SpaceBeforeCapWord(_, _)
SpaceBeforeCapWord(text, i) ==
    IF i > Len(text) THEN <<>>
    ELSE IF i + 2 <= Len(text) /\ text[i] \in Lower /\ text[i + 1] \in Upper
                /\ text[i + 2] \in Lower
         THEN <<text[i], "SP", text[i + 1], text[i + 2]>> \o SpaceBeforeCapWord(text, i + 3)
         ELSE <<text[i]>> \o SpaceBeforeCapWord(text, i + 1)

\* Lines 326-336, in order.
FixSpacing(text) ==
    LET t1  == SpaceBetween(text, 1, Lower, Upper)
        t2  == SpaceBetween(t1, 1, {"."}, Letter)
        t3  == SpaceBetween(t2, 1, {":"}, Letter)
        t4  == SpaceBetween(t3, 1, {","}, Letter)
        t5  == SpaceBetween(t4, 1, {";"}, Letter)
        t6  == SpaceBetween(t5, 1, Digit, Upper)
        t7  == SpaceBetween(t6, 1, Lower, Digit)
        t8  == SpaceBeforeCapWord(t7, 1)
        t9  == SpaceBetween(t8, 1, {")"}, Upper)
        t10 == SpaceBetween(t9, 1, {"]"}, Upper)
    IN  t10

\* Lines 298-336: the text of one line.
LineText(lineItems) ==
    LET sorted == SortByX(lineItems)
    IN  FixSpacing(Trim(JoinRuns(sorted, 1, 2 * sorted[1].x)))

\* The first index >= i of the text that holds no space, or Len(text) + 1.
RECURSIVE SkipSpaces(_, _)
SkipSpaces(text, i) ==
    IF i <= Len(text) /\ text[i] = "SP" THEN SkipSpaces(text, i + 1) ELSE i

\* The text from index i on.
From(text, i) == SubSeq(text, i, Len(text))

\* The length of the run of digits the text starts with (^\d+).
RECURSIVE LeadingDigits(_, _)
LeadingDigits(text, i) ==
    IF i <= Len(text) /\ text[i] \in Digit THEN LeadingDigits(text, i + 1) ELSE i - 1

ListPunct == {".", ")"}

\* (i{1,3}|iv|v|vi{0,3}) in the order the regular expression tries them.
RomanNumerals ==
    << <<"i","i","i">>, <<"i","i">>, <<"i">>, <<"i","v">>, <<"v">>,
       <<"v","i","i","i">>, <<"v","i","i">>, <<"v","i">> >>

\* The length of the numeral matched by /^(i{1,3}|iv|v|vi{0,3})[.)]/i, or 0.
RomanLen(text) ==
    LET fits(n) == /\ Len(text) > Len(RomanNumerals[n])
                   /\ [k \in 1..Len(RomanNumerals[n]) |-> toLowerCase(text[k])]
                          = RomanNumerals[n]
                   /\ text[Len(RomanNumerals[n]) + 1] \in ListPunct
        hits    == { n \in 1..Len(RomanNumerals) : fits(n) }
    IN  IF hits = {} THEN 0
        ELSE Len(RomanNumerals[CHOOSE n \in hits : \A m \in hits : n <= m])

Spaces(n) == [k \in 1..n |-> "SP"]

\* lineItems.reduce((sum, i) => sum + i.fontSize, 0)
RECURSIVE SumFontSize(_)
SumFontSize(lineItems) ==
    IF lineItems = <<>> THEN 0 ELSE Head(lineItems).fontSize + SumFontSize(Tail(lineItems))

\* Lines 338-410: the Markdown of one line, given its text.
ClassifyLine(lineItems, text) ==
    LET sorted      == SortByX(lineItems)
        sumFont     == SumFontSize(sorted)
        n           == Len(sorted)
        isBold      == \E k \in 1..n : sorted[k].bold
        firstItemX  == sorted[1].x
        indentPrefix == IF firstItemX > 100 THEN Spaces(8)
                        ELSE IF firstItemX > 60 THEN Spaces(4) ELSE <<>>
        d           == LeadingDigits(text, 1)
        numbered    == d > 0 /\ Len(text) >= d + 2 /\ text[d + 1] \in ListPunct
                           /\ text[d + 2] = "SP"
        merged      == d > 0 /\ Len(text) >= d + 2 /\ text[d + 1] \in ListPunct
                           /\ text[d + 2] \in Upper
        lettered    == Len(text) >= 2 /\ text[1] \in Letter /\ text[2] \in ListPunct
        r           == RomanLen(text)
        bullet      == Len(text) >= 1 /\ text[1] \in Bullets
        digitsDot   == d > 0 /\ Len(text) >= d + 1 /\ text[d + 1] = "."
    IN  IF sumFont >= 20 * n THEN <<"#", "SP">> \o text
        ELSE IF sumFont >= 16 * n THEN <<"#", "#", "SP">> \o text
        ELSE IF sumFont >= 14 * n /\ isBold THEN <<"#", "#", "#", "SP">> \o text
        ELSE IF sumFont >= 13 * n /\ isBold /\ Len(text) < 80
             THEN <<"#", "#", "#", "#", "SP">> \o text
        ELSE IF isBold /\ Len(text) < 60 /\ ~(\E k \in 1..Len(text) : text[k] = ":")
             THEN <<"**">> \o text \o <<"**">>
        ELSE IF numbered /\ SkipSpaces(text, d + 2) <= Len(text)
             THEN SubSeq(text, 1, d) \o <<".", "SP">> \o From(text, SkipSpaces(text, d + 2))
        ELSE IF merged
             THEN SubSeq(text, 1, d) \o <<".", "SP">> \o From(text, d + 2)
        ELSE IF lettered
             THEN Spaces(4) \o <<toLowerCase(text[1]), ".", "SP">>
                      \o From(text, SkipSpaces(text, 3))
        ELSE IF r > 0
             THEN Spaces(8) \o [k \in 1..r |-> toLowerCase(text[k])] \o <<".", "SP">>
                      \o From(text, SkipSpaces(text, r + 2))
        ELSE IF bullet
             THEN indentPrefix \o <<"-", "SP">> \o From(text, SkipSpaces(text, 2))
        ELSE IF indentPrefix # <<>> /\ ~digitsDot THEN indentPrefix \o text
        ELSE text

\* processTextBlock(items)
processTextBlock(items) ==
    IF items = <<>> THEN <<>>
    ELSE LET lines == GroupLines(items, 1, <<>>, items[1].y)
         IN  JoinLines([k \in 1..Len(lines) |->
                           ClassifyLine(lines[k], LineText(lines[k]))])

\* Lines 236-243 and 259-265: close the current block.
ClosedBlock(currentItems) ==
    IF currentItems = <<>> THEN <<>>
    ELSE LET text == processTextBlock(currentItems)
             maxY == CHOOSE y \in { currentItems[k].y : k \in 1..Len(currentItems) } :
                         \A k \in 1..Len(currentItems) : currentItems[k].y <= y
         IN  IF Trim(text) # <<>>
             THEN << [items |-> currentItems, y |-> maxY, text |-> text] >>
             ELSE <<>>

\* The loop of extractTextBlocks from item k on (lines 228-265); lastY is
\* <<>> for null, <<y>> otherwise.
RECURSIVE BlocksFrom(_, _, _, _)
BlocksFrom(items, k, currentItems, lastY) ==
    IF k > Len(items) THEN ClosedBlock(currentItems)
    ELSE IF IsBlankRun(items[k]) THEN BlocksFrom(items, k + 1, currentItems, lastY)
    ELSE LET y        == items[k].y
             fontSize == RoundTenths(items[k].height)
             split    == lastY # <<>> /\ 2 * Abs(y - lastY[1]) > 3 * fontSize
         IN  (IF split THEN ClosedBlock(currentItems) ELSE <<>>)
                 \o BlocksFrom(items, k + 1,
                               Append(IF split THEN <<>> ELSE currentItems,
                                      BlockItem(items[k])),
                               <<y>>)

\* extractTextBlocks(textContent, pageHeight)
extractTextBlocks(items) ==
    IF items = <<>> THEN <<>> ELSE BlocksFrom(items, 1, <<>>, <<>>)

\* Baselines and heights (tenths of a point) of the runs of a page: 700, 683,
\* 667, 664 lie 17, 16 and 3 apart; 114 rounds to 11, 195 to 20.
RunYs      == {700, 683, 667, 664}
RunHeights == {114, 195, 240}

TextRun(str, y, height) == [str |-> str, x |-> 50, y |-> y, height |-> height, bold |-> FALSE]

\* Non-blank runs "Aa" of every baseline and height, and blank runs.
RunKinds ==
    { TextRun(<<"A", "a">>, y, h) : y \in RunYs, h \in RunHeights }
        \cup { TextRun(<<"SP">>, y, 114) : y \in RunYs }

NotBlocks == UNCHANGED <<firstVars, tableVars, gapVars, convVars, importVars, autosaveVars, lastVars>>

BlocksInit ==
    /\ textItems \in SeqsUpTo(RunKinds, MaxRuns)
    /\ pageBlocks = <<>>
    /\ bPc = "start"
    /\ IdleFirst /\ IdleTable /\ IdleGaps /\ IdleConv /\ IdleImport /\ IdleAutosave /\ IdleLast

ExtractTextBlocks ==
    /\ bPc = "start"
    /\ pageBlocks' = extractTextBlocks(textItems)
    /\ bPc' = "done"
    /\ UNCHANGED textItems
    /\ NotBlocks

BlocksNext == ExtractTextBlocks

SpecBlocks == BlocksInit /\ [][BlocksNext]_vars

\* The non-blank runs of the page, in order.
NonBlankRuns == SelectSeq(textItems, LAMBDA item : \E k \in 1..Len(item.str) : item.str[k] # "SP")

\* How many runs the first b blocks hold.
RECURSIVE RunsInBlocks(_)
RunsInBlocks(b) == IF b = 0 THEN 0 ELSE RunsInBlocks(b - 1) + Len(pageBlocks[b].items)

\* The runs of one line of a block: maximal stretches of the block's runs in
\* which each baseline is within 3 of the one before.
LineStarts(items) ==
    { k \in 1..Len(items) : k = 1 \/ Abs(items[k].y - items[k - 1].y) > 3 }

SourceChars == {"a", "A", "1", ".", "SP"}
SourceFontSize == 10

\* Words separated by single spaces: no space at either end, no two in a row.
SingleSpaced(text) ==
    /\ text # <<>>
    /\ text[1] # "SP" /\ text[Len(text)] # "SP"
    /\ \A k \in 1..(Len(text) - 1) : ~(text[k] = "SP" /\ text[k + 1] = "SP")

\* The runs of a text cut after the positions in cuts: run starts are 1, the
\* position after a cut and the position after a space; a run at position k
\* of the text is drawn at x = (k - 1) * fontSize * 0.5.
RunStarts(text, cuts) ==
    { k \in 1..Len(text) :
         /\ text[k] # "SP"
         /\ k = 1 \/ (k - 1) \in cuts \/ text[k - 1] = "SP" }

RunAt(text, cuts, k) ==
    LET stop == CHOOSE e \in k..Len(text) :
                    /\ \A m \in k..e : text[m] # "SP"
                    /\ \A m \in k..(e - 1) : m \notin cuts
                    /\ e = Len(text) \/ e \in cuts \/ text[e + 1] = "SP"
    IN  [str |-> SubSeq(text, k, stop), x |-> (k - 1) * (SourceFontSize \div 2),
         y |-> 700, fontSize |-> SourceFontSize, bold |-> FALSE]

RECURSIVE LaidOutFrom(_, _, _)
LaidOutFrom(text, cuts, k) ==
    IF k > Len(text) THEN <<>>
    ELSE IF k \in RunStarts(text, cuts)
         THEN <<RunAt(text, cuts, k)>> \o LaidOutFrom(text, cuts, k + 1)
         ELSE LaidOutFrom(text, cuts, k + 1)

NotGaps == UNCHANGED <<firstVars, tableVars, blockVars, convVars, importVars, autosaveVars, lastVars>>

GapsInit ==
    /\ lineSource \in { t \in SeqsUpTo(SourceChars, MaxChars) : SingleSpaced(t) }
    /\ \E cuts \in SUBSET (1..(Len(lineSource) - 1)) :
          lineRuns = LaidOutFrom(lineSource, cuts, 1)
    /\ lineOut = <<>>
    /\ gPc = "start"
    /\ IdleFirst /\ IdleTable /\ IdleBlocks /\ IdleConv /\ IdleImport /\ IdleAutosave /\ IdleLast

\* The line map of processTextBlock up to the spacing fixes.
ReconstructLine ==
    /\ gPc = "start"
    /\ lineOut' = LineText(lineRuns)
    /\ gPc' = "done"
    /\ UNCHANGED <<lineSource, lineRuns>>
    /\ NotGaps

GapsNext == ReconstructLine

SpecGaps == GapsInit /\ [][GapsNext]_vars

MinImageSize == 20

\* What page.objs holds for a name: image data of a size, nothing, or data
\* whose decoding throws.
ObjKinds == {"ok", "narrow", "low", "missing", "corrupt"}
ObjWidth(obj)  == IF obj = "narrow" THEN 19 ELSE 20
ObjHeight(obj) == IF obj = "low" THEN 19 ELSE 20

RefYs == {650, 300}
RefKinds == { [y |-> y, obj |-> obj] : y \in RefYs, obj \in ObjKinds }

\* The text blocks of page k: one block at y = 500.
PageTextBlocks(k) == << [y |-> 500, text |-> <<"text", k>>] >>

\* The document of n pages whose j-th painted image is flat[j], on page
\* pageOf[j].
DocOf(n, flat, pageOf) ==
    [k \in 1..n |->
        [text |-> PageTextBlocks(k),
         refs |-> LET mine == SelectSeq([j \in 1..Len(flat) |-> j], LAMBDA j : pageOf[j] = k)
                  IN  [m \in 1..Len(mine) |->
                          [name |-> <<"img", k, m>>, y |-> flat[mine[m]].y,
                           obj |-> flat[mine[m]].obj]]]]

NonDecreasing(len, n) ==
    { f \in [1..len -> 1..n] : \A a, b \in 1..len : a < b => f[a] <= f[b] }

\* Documents of up to MaxPages pages painting up to MaxRefs images in all.
PdfDocs ==
    UNION { UNION { { DocOf(n, flat, f) : f \in NonDecreasing(Len(flat), n) } :
                        flat \in SeqsUpTo(RefKinds, MaxRefs) } :
                n \in 1..MaxPages }

NotConv == UNCHANGED <<firstVars, tableVars, blockVars, gapVars, importVars, autosaveVars, lastVars>>

ConvInit ==
    /\ pdfDoc \in PdfDocs
    /\ pageNum = 0 /\ pageText = <<>> /\ pageOps = <<>> /\ opIndex = 0
    /\ images = <<>> /\ imagePositions = <<>> /\ markdown = <<>> /\ allImages = <<>>
    /\ globalImageCounter = 0 /\ events = <<>> /\ cPc = "open"
    /\ IdleFirst /\ IdleTable /\ IdleBlocks /\ IdleGaps /\ IdleImport /\ IdleAutosave /\ IdleLast

\* const pdf = await pdfjsLib.getDocument(...).promise; pageNum = 1
OpenDocument ==
    /\ cPc = "open"
    /\ pageNum' = 1
    /\ globalImageCounter' = 1
    /\ events' = Append(events, <<"open", 0>>)
    /\ cPc' = "page"
    /\ UNCHANGED <<pdfDoc, pageText, pageOps, opIndex, images, imagePositions, markdown, allImages>>
    /\ NotConv

\* getDocument rejects: convertPdfToMarkdown throws.
OpenFails ==
    /\ cPc = "open"
    /\ events' = Append(events, <<"open failed", 0>>)
    /\ cPc' = "failed"
    /\ UNCHANGED <<pdfDoc, pageNum, pageText, pageOps, opIndex, images, imagePositions,
                   markdown, allImages, globalImageCounter>>
    /\ NotConv

\* Lines 152-158: getPage, getTextContent, extractTextBlocks.
ExtractPageText ==
    /\ cPc = "page" /\ pageNum <= Len(pdfDoc)
    /\ pageText' = pdfDoc[pageNum].text
    /\ events' = Append(events, <<"text", pageNum>>)
    /\ cPc' = "scan"
    /\ UNCHANGED <<pdfDoc, pageNum, pageOps, opIndex, images, imagePositions, markdown,
                   allImages, globalImageCounter>>
    /\ NotConv

\* getPage or getTextContent rejects: convertPdfToMarkdown throws.
PageFails ==
    /\ cPc = "page" /\ pageNum <= Len(pdfDoc)
    /\ events' = Append(events, <<"page failed", pageNum>>)
    /\ cPc' = "failed"
    /\ UNCHANGED <<pdfDoc, pageNum, pageText, pageOps, opIndex, images, imagePositions,
                   markdown, allImages, globalImageCounter>>
    /\ NotConv

\* Lines 553-597: images = [], imagePositions = [], the operator scan and
\* imageOps.sort((a, b) => b.y - a.y).
ScanPageImages ==
    /\ cPc = "scan"
    /\ pageOps' = SortContent(pdfDoc[pageNum].refs)
    /\ opIndex' = 0
    /\ images' = <<>> /\ imagePositions' = <<>>
    /\ events' = Append(events, <<"scan", pageNum>>)
    /\ cPc' = "resolve"
    /\ UNCHANGED <<pdfDoc, pageNum, pageText, markdown, allImages, globalImageCounter>>
    /\ NotConv

\* getOperatorList rejects: the outer catch (lines 694-696) leaves the page
\* without images.
ScanFails ==
    /\ cPc = "scan"
    /\ pageOps' = <<>>
    /\ opIndex' = 0
    /\ images' = <<>> /\ imagePositions' = <<>>
    /\ events' = Append(events, <<"scan failed", pageNum>>)
    /\ cPc' = "resolve"
    /\ UNCHANGED <<pdfDoc, pageNum, pageText, markdown, allImages, globalImageCounter>>
    /\ NotConv

\* One pass of the image loop (lines 600-692) that pushes nothing.
SkipImage(why) ==
    /\ opIndex' = opIndex + 1
    /\ events' = Append(events, <<why, pageNum, pageOps[opIndex + 1].name>>)
    /\ UNCHANGED <<pdfDoc, pageNum, pageText, pageOps, images, imagePositions, markdown,
                   allImages, globalImageCounter, cPc>>
    /\ NotConv

InImageLoop == cPc = "resolve" /\ opIndex < Len(pageOps)

\* A loop pass that keeps an image of any size.
ResolveAnySize ==
    /\ InImageLoop
    /\ LET imageOp == pageOps[opIndex + 1]
       IN  /\ imageOp.obj \in {"ok", "narrow", "low"}
           /\ images' = Append(images,
                               [index |-> globalImageCounter + Len(images),
                                name |-> imageOp.name,
                                width |-> ObjWidth(imageOp.obj),
                                height |-> ObjHeight(imageOp.obj)])
           /\ imagePositions' = Append(imagePositions, [y |-> imageOp.y])
           /\ events' = Append(events, <<"image", pageNum, imageOp.name>>)
    /\ opIndex' = opIndex + 1
    /\ UNCHANGED <<pdfDoc, pageNum, pageText, pageOps, markdown, allImages,
                   globalImageCounter, cPc>>
    /\ NotConv
\* The lookup delivers data that decodes: images.push, imagePositions.push.
ResolveImage ==
    /\ InImageLoop
    /\ LET imageOp == pageOps[opIndex + 1]
       IN  /\ imageOp.obj = "ok"
           /\ images' = Append(images,
                               [index |-> globalImageCounter + Len(images),
                                name |-> imageOp.name,
                                width |-> ObjWidth(imageOp.obj),
                                height |-> ObjHeight(imageOp.obj)])
           /\ imagePositions' = Append(imagePositions, [y |-> imageOp.y])
           /\ events' = Append(events, <<"image", pageNum, imageOp.name>>)
    /\ opIndex' = opIndex + 1
    /\ UNCHANGED <<pdfDoc, pageNum, pageText, pageOps, markdown, allImages,
                   globalImageCounter, cPc>>
    /\ NotConv

\* if (imgData.width < 20 || imgData.height < 20) continue
SkipSmallImage ==
    /\ InImageLoop
    /\ LET obj == pageOps[opIndex + 1].obj
       IN  obj \in {"ok", "narrow", "low"}
               /\ (ObjWidth(obj) < MinImageSize \/ ObjHeight(obj) < MinImageSize)
    /\ SkipImage("small")

\* The callback delivers no data: reject(new Error('Image not found')).
ResolveNoData ==
    /\ InImageLoop
    /\ pageOps[opIndex + 1].obj = "missing"
    /\ SkipImage("not found")

\* The callback does not come within 5000 ms: reject(new Error('Timeout')).
ResolveTimeout ==
    /\ InImageLoop
    /\ pageOps[opIndex + 1].obj = "missing"
    /\ SkipImage("timeout")

\* A decoding error that leaves the image loop and the conversion.
DecodeAborts ==
    /\ InImageLoop
    /\ pageOps[opIndex + 1].obj = "corrupt"
    /\ events' = Append(events, <<"decode failed", pageNum, pageOps[opIndex + 1].name>>)
    /\ cPc' = "failed"
    /\ UNCHANGED <<pdfDoc, pageNum, pageText, pageOps, opIndex, images, imagePositions,
                   markdown, allImages, globalImageCounter>>
    /\ NotConv
\* Decoding throws (createImageData, putImageData, toDataURL): caught at 689.
DecodeThrows ==
    /\ InImageLoop
    /\ pageOps[opIndex + 1].obj = "corrupt"
    /\ SkipImage("decode failed")

\* The Markdown items of a page: text blocks, then images, sorted.
PageContent(blocks, imgs, positions, counter) ==
    SortContent(
        [k \in 1..Len(blocks) |-> [type |-> "text", y |-> blocks[k].y, content |-> blocks[k].text]]
        \o [k \in 1..Len(imgs) |->
               [type |-> "image", y |-> positions[k].y,
                content |-> <<"image", imgs[k].name>>, imageIndex |-> counter + k - 1]])

\* An assembly that puts the page's content in front of the Markdown so far.
AssemblePdfPageInFront ==
    /\ cPc = "resolve" /\ opIndex = Len(pageOps)
    /\ markdown' = PageContent(pageText, images, imagePositions, globalImageCounter) \o markdown
    /\ allImages' = allImages \o images
    /\ globalImageCounter' = globalImageCounter + Len(images)
    /\ pageNum' = pageNum + 1
    /\ events' = Append(events, <<"append", pageNum>>)
    /\ cPc' = "page"
    /\ UNCHANGED <<pdfDoc, pageText, pageOps, opIndex, images, imagePositions>>
    /\ NotConv
\* Lines 164-202: the loop is over, the page's content is merged, sorted and
\* appended; pageNum++.
AssemblePdfPage ==
    /\ cPc = "resolve" /\ opIndex = Len(pageOps)
    /\ markdown' = markdown \o PageContent(pageText, images, imagePositions, globalImageCounter)
    /\ allImages' = allImages \o images
    /\ globalImageCounter' = globalImageCounter + Len(images)
    /\ pageNum' = pageNum + 1
    /\ events' = Append(events, <<"append", pageNum>>)
    /\ cPc' = "page"
    /\ UNCHANGED <<pdfDoc, pageText, pageOps, opIndex, images, imagePositions>>
    /\ NotConv

\* Lines 207-211: the loop over the pages is over.
FinishConversion ==
    /\ cPc = "page" /\ pageNum > Len(pdfDoc)
    /\ events' = Append(events, <<"return", 0>>)
    /\ cPc' = "done"
    /\ UNCHANGED <<pdfDoc, pageNum, pageText, pageOps, opIndex, images, imagePositions,
                   markdown, allImages, globalImageCounter>>
    /\ NotConv

ConvNext ==
    \/ OpenDocument \/ OpenFails
    \/ ExtractPageText \/ PageFails
    \/ ScanPageImages \/ ScanFails
    \/ ResolveImage \/ SkipSmallImage \/ ResolveNoData \/ ResolveTimeout \/ DecodeThrows
    \/ AssemblePdfPage
    \/ FinishConversion

SpecConvert == ConvInit /\ [][ConvNext]_vars

\* The page an item of the Markdown came from.
ItemPage(item) == IF item.type = "text" THEN item.content[2] ELSE item.content[2][2]

\* The items of the Markdown that came from page k, in their order.
PageItems(k) == SelectSeq(markdown, LAMBDA item : ItemPage(item) = k)

\* Whether an event of a kind for page k has happened.
Happened(kind, k) == \E e \in 1..Len(events) : events[e][1] = kind /\ events[e][2] = k

\* The references of page k whose object is an image the converter keeps.
KeptRefs(k) ==
    { r \in 1..Len(pdfDoc[k].refs) :
         /\ pdfDoc[k].refs[r].obj \in {"ok", "narrow", "low"}
         /\ ObjWidth(pdfDoc[k].refs[r].obj) >= 20
         /\ ObjHeight(pdfDoc[k].refs[r].obj) >= 20 }

(***************************************************************************)
(* C14: a reference whose lookup or decoding fails contributes no image;   *)
(* every other reference of the page that yields an image is emitted, in   *)
(* non-increasing y together with the page's text; and no failure of an    *)
(* image ends the conversion: it ends in failure only when the document or *)
(* a page cannot be opened.                                                *)
(***************************************************************************)
ImageFailureIsSkipped ==
    /\ cPc = "failed" => Last(events)[1] \in {"open failed", "page failed"}
    /\ \A k \in 1..Len(pdfDoc) :
          Happened("append", k) =>
              LET items == PageItems(k)
                  shown == { items[m].content[2] : m \in { n \in 1..Len(items) : items[n].type = "image" } }
              IN  /\ \E m \in 1..Len(items) : items[m] = [type |-> "text", y |-> 500, content |-> <<"text", k>>]
                  /\ \A m, n \in 1..Len(items) : m < n => items[m].y >= items[n].y
                  /\ Happened("scan", k) => shown = { pdfDoc[k].refs[r].name : r \in KeptRefs(k) }
                  /\ \A r \in 1..Len(pdfDoc[k].refs) :
                        pdfDoc[k].refs[r].obj \in {"missing", "corrupt"}
                            => pdfDoc[k].refs[r].name \notin shown

\* A page painted an image whose decoding throws above an image that
\* decodes: the conversion returned with the second image and the text.
FailedImageSkipped ==
    /\ cPc = "done"
    /\ Len(pdfDoc) = 1
    /\ Len(pdfDoc[1].refs) = 2
    /\ pdfDoc[1].refs[1].obj = "corrupt" /\ pdfDoc[1].refs[1].y = 650
    /\ pdfDoc[1].refs[2].obj = "ok" /\ pdfDoc[1].refs[2].y = 300
    /\ \E e \in 1..Len(events) : events[e][1] = "decode failed"
    /\ [m \in 1..Len(markdown) |-> markdown[m].content]
           = << <<"text", 1>>, <<"image", <<"img", 1, 2>>>> >>

\* The place of the first event of a kind for page k.
EventAt(kind, k) ==
    CHOOSE e \in 1..Len(events) :
        /\ events[e][1] = kind /\ events[e][2] = k
        /\ \A d \in 1..(e - 1) : ~(events[d][1] = kind /\ events[d][2] = k)

(***************************************************************************)
(* C16: pages are processed in ascending page number, page k + 1 is not    *)
(* begun before page k's content was extracted, sorted and appended, and   *)
(* the Markdown is the pages' fragments in page order with nothing between *)
(* them.                                                                   *)
(***************************************************************************)
PagesInOrder ==
    /\ \A e \in 1..Len(events) :
          events[e][1] \in {"text", "image", "small", "not found", "timeout",
                            "decode failed", "scan", "scan failed", "append"}
          => \A k \in 1..(events[e][2] - 1) :
                Happened("append", k) /\ EventAt("append", k) < e
    /\ \A k \in 1..Len(pdfDoc) :
          Happened("append", k) =>
              /\ Happened("text", k) /\ EventAt("text", k) < EventAt("append", k)
              /\ \A e \in 1..Len(events) :
                    (events[e][2] = k /\ events[e][1] # "append")
                        => e < EventAt("append", k)
    /\ \A m, n \in 1..Len(markdown) : m < n => ItemPage(markdown[m]) <= ItemPage(markdown[n])
    /\ \A m \in 1..Len(markdown) :
          /\ markdown[m].type \in {"text", "image"}
          /\ Happened("append", ItemPage(markdown[m]))
    /\ cPc = "done" =>
          markdown = Flatten([k \in 1..Len(pdfDoc) |-> PageItems(k)])

\* A document of two pages with an image on each was converted.
TwoPagesConverted ==
    /\ cPc = "done"
    /\ Len(pdfDoc) = 2
    /\ Len(pdfDoc[1].refs) = 1 /\ Len(pdfDoc[2].refs) = 1
    /\ pdfDoc[1].refs[1].y = 300 /\ pdfDoc[2].refs[1].y = 650
    /\ [m \in 1..Len(markdown) |-> markdown[m].content]
           = << <<"text", 1>>, <<"image", <<"img", 1, 1>>>>,
                <<"image", <<"img", 2, 1>>>>, <<"text", 2>> >>

\* The object the store holds for an image name.
ObjOfName(name) == pdfDoc[name[2]].refs[name[3]].obj

(***************************************************************************)
(* C17: every image of the result, in the images array and in the          *)
(* Markdown, is at least 20 wide and 20 high; an image object smaller in   *)
(* either dimension is in neither.                                         *)
(***************************************************************************)
NoSmallImages ==
    /\ \A m \in 1..Len(allImages) : allImages[m].width >= 20 /\ allImages[m].height >= 20
    /\ \A m \in 1..Len(images) : images[m].width >= 20 /\ images[m].height >= 20
    /\ \A m \in 1..Len(markdown) :
          markdown[m].type = "image"
              => /\ ObjWidth(ObjOfName(markdown[m].content[2])) >= 20
                 /\ ObjHeight(ObjOfName(markdown[m].content[2])) >= 20
    /\ \A k \in 1..Len(pdfDoc) : \A r \in 1..Len(pdfDoc[k].refs) :
          pdfDoc[k].refs[r].obj \in {"narrow", "low"}
              => /\ \A m \in 1..Len(allImages) : allImages[m].name # pdfDoc[k].refs[r].name
                 /\ \A m \in 1..Len(markdown) :
                       markdown[m].content # <<"image", pdfDoc[k].refs[r].name>>

\* A page painted a 19 x 20 image and a 20 x 20 image: the conversion
\* returned the second one only.
SmallImageOmitted ==
    /\ cPc = "done"
    /\ Len(pdfDoc) = 1
    /\ Len(pdfDoc[1].refs) = 2
    /\ pdfDoc[1].refs[1].obj = "narrow"
    /\ pdfDoc[1].refs[2].obj = "ok"
    /\ Len(allImages) = 1
    /\ allImages[1].name = <<"img", 1, 2>>
    /\ allImages[1].width = 20 /\ allImages[1].height = 20
    /\ \E e \in 1..Len(events) : events[e][1] = "small"

(***************************************************************************)
(* The DOCX path as text (src/js/export.js): htmlToMarkdown over the       *)
(* top-level elements, rendered to a string of atoms: "w" a word           *)
(* character, "NL", "SP", "#", "-", ".", and decimal digits.               *)
(***************************************************************************)
DecimalDigits == <<"0", "1", "2", "3", "4", "5", "6", "7", "8", "9">>

\* The decimal numeral of n, as itemNumber + '. ' writes it.
RECURSIVE Decimal(_)
Decimal(n) ==
    IF n < 10 THEN <<DecimalDigits[n + 1]>>
    ELSE Decimal(n \div 10) \o <<DecimalDigits[(n % 10) + 1]>>

\* Top-level elements of mammoth's HTML: lists, paragraphs, headings.
DocxKinds == {"H1", "P", "UL1", "OL1", "OL2"}
DocxElement(kind, k) ==
    IF kind = "H1" THEN [tagName |-> "H1", items |-> <<>>] ELSE ElementOfKind(kind, k)

DocxHtmls ==
    { [k \in 1..Len(kinds) |-> DocxElement(kinds[k], k)] :
          kinds \in SeqsUpTo(DocxKinds, MaxDocxElems) }

\* processListItems as text: '- ' + itemText + '\n' or
\* itemNumber + '. ' + itemText + '\n' for each item; an item's text is "w".
RECURSIVE ListText(_, _, _)
ListText(items, type, itemNumber) ==
    IF items = <<>> THEN <<>>
    ELSE IF type = "ul"
         THEN <<"-", "SP", "w", "NL">> \o ListText(Tail(items), type, itemNumber)
         ELSE Decimal(itemNumber) \o <<".", "SP", "w", "NL">>
                  \o ListText(Tail(items), type, itemNumber + 1)

\* processNodesWithState from the k-th top-level element on (lines 1170-1203).
RECURSIVE NodesText(_, _, _, _)
NodesText(d, ord, k, afterList) ==
    IF k > Len(ord) THEN <<>>
    ELSE LET element == d[ord[k]]
             tag     == element.tagName
         IN  IF tag \in ListTags
             THEN <<"NL">> \o ListText(element.items, IF tag = "OL" THEN "ol" ELSE "ul", 1)
                      \o <<"NL">> \o NodesText(d, ord, k + 1, TRUE)
             ELSE IF tag = "P" /\ afterList
             THEN Spaces(4) \o <<"w", "NL", "NL">> \o NodesText(d, ord, k + 1, afterList)
             ELSE IF tag = "P"
             THEN <<"w", "NL", "NL">> \o NodesText(d, ord, k + 1, FALSE)
             ELSE <<"NL", "#", "SP", "w", "NL", "NL">> \o NodesText(d, ord, k + 1, FALSE)

\* htmlToMarkdown(html), as the string it returns.
htmlToMarkdown(elements) ==
    LET merged == mergeConsecutiveLists(elements, [k \in 1..Len(elements) |-> k])
    IN  Trim(NodesText(merged.dom, merged.order, 1, FALSE))

(***************************************************************************)
(* The PDF path as text (src/js/pdf-converter.js:195-208): each item's     *)
(* content followed by two newlines, then formatMarkdown(markdown.trim()). *)
(***************************************************************************)
\* The content of an item: a one-line block, a two-line block, an image.
ItemContents == { <<"w">>, <<"w", "NL", "w">>, <<"H1">> }

\* pageMarkdown += item.content + '\n\n' for the items from the k-th on.
RECURSIVE ItemsText(_)
ItemsText(contents) ==
    IF contents = <<>> THEN <<>>
    ELSE Head(contents) \o <<"NL", "NL">> \o ItemsText(Tail(contents))

(***************************************************************************)
(* File import: PdfConverter.processFile (src/js/pdf-converter.js:99-133)  *)
(* and DocxConverter.processFile (src/js/export.js:1017-1059), writing to  *)
(* the editor surface.  A PDF file is the sequence of its pages, a page    *)
(* being the contents of its items; a DOCX file is the HTML mammoth makes  *)
(* of it.                                                                  *)
(***************************************************************************)
PdfFiles ==
    { [kind |-> "pdf", pages |-> [k \in 1..Len(c) |-> <<c[k]>>], html |-> <<>>] :
          c \in { q \in SeqsUpTo(ItemContents, MaxPages) : q # <<>> } }
DocxFiles ==
    { [kind |-> "docx", pages |-> <<>>, html |-> h] : h \in DocxHtmls \ {<<>>} }
ImportFiles == PdfFiles \cup DocxFiles \cup { [kind |-> "other", pages |-> <<>>, html |-> <<>>] }

\* The editor surface an import can find: a fresh editor, or a document
\* with its image collapsed.
EditorSurfaces ==
    { [value |-> <<>>, imagesCollapsed |-> FALSE, imageStore |-> EmptyStore],
      [value |-> <<"x">> \o Placeholder(<<"img-1">>), imagesCollapsed |-> TRUE,
       imageStore |-> StorePut(EmptyStore, <<"img-1">>, <<"H1">>)] }

\* The surface as the claims speak of it.
Surface ==
    [value |-> value, imagesCollapsed |-> imagesCollapsed, imageStore |-> imageStore,
     postTitle |-> postTitle, extractedImages |-> extractedImages]

NotImport ==
    UNCHANGED <<history, historyIndex, codecVars, fmtVars, asmVars, scanVars, listVars,
                tableVars, blockVars, gapVars, convVars, autosaveVars, lastVars>>

ImportInit ==
    /\ \E e \in EditorSurfaces :
          value = e.value /\ imagesCollapsed = e.imagesCollapsed /\ imageStore = e.imageStore
    /\ history = <<>> /\ historyIndex = -1
    /\ importFile \in ImportFiles
    /\ postTitle \in { <<>>, <<"old title">> }
    /\ extractedImages \in { <<>>, <<"old image">> }
    /\ errorsShown = 0
    /\ partial = <<>>
    /\ surfaceBefore = <<>>
    /\ typed = FALSE
    /\ iPc = "selected"
    /\ IdleCodec /\ IdleFmt /\ IdleAsm /\ IdleScan /\ IdleLists
    /\ IdleTable /\ IdleBlocks /\ IdleGaps /\ IdleConv /\ IdleAutosave /\ IdleLast

\* processFile: the file type is not accepted; showToast(..., 'error'); return.
RejectFileType ==
    /\ iPc = "selected" /\ importFile.kind = "other"
    /\ errorsShown' = errorsShown + 1
    /\ surfaceBefore' = Surface
    /\ iPc' = "rejected"
    /\ UNCHANGED <<edVars, importFile, postTitle, extractedImages, partial, typed>>
    /\ NotImport

\* processFile up to `await file.arrayBuffer()`.
StartImport ==
    /\ iPc = "selected" /\ importFile.kind # "other"
    /\ surfaceBefore' = Surface
    /\ iPc' = "reading"
    /\ UNCHANGED <<edVars, importFile, postTitle, extractedImages, errorsShown, partial, typed>>
    /\ NotImport

\* file.arrayBuffer() resolves; the conversion starts.
ReadFile ==
    /\ iPc = "reading"
    /\ partial' = <<>>
    /\ iPc' = "converting"
    /\ UNCHANGED <<edVars, importFile, postTitle, extractedImages, errorsShown,
                   surfaceBefore, typed>>
    /\ NotImport

\* The catch block of processFile: one error toast.
ImportFails ==
    /\ errorsShown' = errorsShown + 1
    /\ iPc' = "failed"
    /\ UNCHANGED <<edVars, importFile, postTitle, extractedImages, partial, surfaceBefore, typed>>
    /\ NotImport

\* file.arrayBuffer() rejects.
ReadFails == iPc = "reading" /\ ImportFails

\* One iteration of the page loop of convertPdfToMarkdown: markdown += pageMarkdown.
PdfConvertPage ==
    /\ iPc = "converting" /\ importFile.kind = "pdf" /\ Len(partial) < Len(importFile.pages)
    /\ partial' = Append(partial, ItemsText(importFile.pages[Len(partial) + 1]))
    /\ UNCHANGED <<edVars, importFile, postTitle, extractedImages, errorsShown,
                   surfaceBefore, typed, iPc>>
    /\ NotImport

\* A variant that hands the pages converted so far to the editor before
\* reporting the error.
PdfContainerFailsAfterWriting ==
    /\ iPc = "converting" /\ importFile.kind = "pdf" /\ Len(partial) < Len(importFile.pages)
    /\ value' = Trim(Flatten(partial))
    /\ imagesCollapsed' = FALSE
    /\ imageStore' = EmptyStore
    /\ errorsShown' = errorsShown + 1
    /\ iPc' = "failed"
    /\ UNCHANGED <<history, historyIndex, importFile, postTitle, extractedImages, partial,
                   surfaceBefore, typed>>
    /\ NotImport

\* getDocument rejects, or getPage / getTextContent of the next page does.
PdfContainerFails ==
    /\ iPc = "converting" /\ importFile.kind = "pdf" /\ Len(partial) < Len(importFile.pages)
    /\ ImportFails

\* The title written when #post-title is empty.
TitleAfter(title) == IF title = <<>> THEN <<"file name">> ELSE title

\* The images a conversion returns: one per image item.
ResultImages(pages) ==
    SelectSeq(Flatten(pages), LAMBDA c : c = <<"H1">>)

\* convertPdfToMarkdown returns; lines 112-126.
PdfCommit ==
    /\ iPc = "converting" /\ importFile.kind = "pdf" /\ Len(partial) = Len(importFile.pages)
    /\ postTitle' = TitleAfter(postTitle)
    /\ value' = formatMarkdown(Trim(Flatten(partial)))
    /\ imagesCollapsed' = FALSE
    /\ imageStore' = EmptyStore
    /\ extractedImages' = ResultImages(importFile.pages)
    /\ iPc' = "committed"
    /\ UNCHANGED <<history, historyIndex, importFile, errorsShown, partial, surfaceBefore, typed>>
    /\ NotImport

\* mammoth.convertToHtml resolves; htmlToMarkdown; lines 1036-1047.
DocxCommit ==
    /\ iPc = "converting" /\ importFile.kind = "docx"
    /\ postTitle' = TitleAfter(postTitle)
    /\ value' = htmlToMarkdown(importFile.html)
    /\ imagesCollapsed' = FALSE
    /\ imageStore' = EmptyStore
    /\ iPc' = "committed"
    /\ UNCHANGED <<history, historyIndex, importFile, extractedImages, errorsShown, partial,
                   surfaceBefore, typed>>
    /\ NotImport

\* mammoth.convertToHtml rejects.
DocxConvertFails ==
    /\ iPc = "converting" /\ importFile.kind = "docx"
    /\ ImportFails

\* The user types a character while the import is awaiting.
TypeDuringImport ==
    /\ iPc \in {"reading", "converting"} /\ ~typed
    /\ value' = value \o <<"x">>
    /\ typed' = TRUE
    /\ UNCHANGED <<imagesCollapsed, imageStore, history, historyIndex, importFile, postTitle,
                   extractedImages, errorsShown, partial, surfaceBefore, iPc>>
    /\ NotImport

ImportNext ==
    \/ RejectFileType \/ StartImport
    \/ ReadFile \/ ReadFails
    \/ PdfConvertPage \/ PdfContainerFails \/ PdfCommit
    \/ DocxCommit \/ DocxConvertFails
    \/ TypeDuringImport

SpecImport == ImportInit /\ [][ImportNext]_vars

(***************************************************************************)
(* C15: when an import has failed, it has reported one error, and the      *)
(* editor content, collapse state, image store, post title and extracted   *)
(* images are what they were when the import began (the content with what  *)
(* the user typed meanwhile).                                              *)
(***************************************************************************)
FailedImportWritesNothing ==
    iPc = "failed" =>
        /\ errorsShown = 1
        /\ Surface = [surfaceBefore EXCEPT
                         !.value = IF typed THEN @ \o <<"x">> ELSE @]

\* A PDF import into an editor with a collapsed image failed on its second
\* page, after the first page had been converted.
SecondPageFailed ==
    /\ iPc = "failed"
    /\ importFile.kind = "pdf"
    /\ Len(importFile.pages) = 2
    /\ Len(partial) = 1
    /\ imagesCollapsed
    /\ ~typed
    /\ postTitle = <<>>
    /\ extractedImages = <<"old image">>

\* Whether a text holds three newlines in a row.
HasTripleNewline(text) ==
    \E k \in 1..(Len(text) - 2) : text[k] = "NL" /\ text[k + 1] = "NL" /\ text[k + 2] = "NL"

(***************************************************************************)
(* C20: the Markdown either import hands to the editor holds no run of     *)
(* three or more newlines.                                                 *)
(***************************************************************************)
ImportedMarkdownIsFormatted ==
    (iPc = "committed" /\ ~typed) => ~HasTripleNewline(value)

(***************************************************************************)
(* Autosave: restoreAutoSave as init calls it and saveToLocalStorage       *)
(* (src/js/editor.js).  Times are epoch milliseconds.                      *)
(***************************************************************************)
Now == 1000000000

\* 7 * 24 * 60, the age limit in minutes.
AgeLimitMinutes == 7 * 24 * 60

\* A variant that still offers a record exactly seven days old.
IsFreshInclusive(now, timestamp) == now - timestamp <= AgeLimitMinutes * 60 * 1000
\* ageMinutes = (Date.now() - state.timestamp) / 1000 / 60; ageMinutes < 7 * 24 * 60
IsFresh(now, timestamp) == now - timestamp < AgeLimitMinutes * 60 * 1000

\* The timestamps of a stored record: just written, a day old, a millisecond
\* short of seven days, seven days, older, and one from a clock set ahead.
SavedTimestamps ==
    { Now, Now - 86400000, Now - 604799999, Now - 604800000, Now - 604800001, Now + 1000 }
SavedContents == { <<>>, <<"SP", "NL">>, <<"SP", "a", "SP">>, <<"a", "NL", "b">> }

\* What localStorage.getItem returns: null (<<>>) or the stored string, which
\* is empty, is not JSON, or is a state saveToLocalStorage wrote.
SavedItems ==
    { <<>> }
    \cup { <<[form |-> f, content |-> <<>>, timestamp |-> 0]>> : f \in {"empty", "not JSON"} }
    \cup { <<[form |-> "state", content |-> c, timestamp |-> t]>> :
              c \in SavedContents, t \in SavedTimestamps }

NotAutosave ==
    UNCHANGED <<imagesCollapsed, imageStore, history, historyIndex, codecVars, fmtVars,
                asmVars, scanVars, listVars, tableVars, blockVars, gapVars, convVars,
                importVars, lastVars>>

AutosaveInit ==
    /\ value \in { <<>>, <<"x">> }
    /\ imagesCollapsed = FALSE /\ imageStore = EmptyStore
    /\ history = <<>> /\ historyIndex = -1
    /\ saved \in SavedItems
    /\ confirmsShown = 0
    /\ valueAtInit = value
    /\ rPc = "init"
    /\ IdleCodec /\ IdleFmt /\ IdleAsm /\ IdleScan /\ IdleLists
    /\ IdleTable /\ IdleBlocks /\ IdleGaps /\ IdleConv /\ IdleImport /\ IdleLast

\* restoreAutoSave up to the confirm dialog: `if (!saved) return`, JSON.parse
\* (a throw is caught), the age and content tests.
RestoreAutoSave ==
    /\ rPc = "init"
    /\ IF /\ saved # <<>>
          /\ saved[1].form = "state"
          /\ IsFresh(Now, saved[1].timestamp)
          /\ saved[1].content # <<>>
          /\ Trim(saved[1].content) # <<>>
       THEN /\ confirmsShown' = confirmsShown + 1
            /\ rPc' = "confirming"
       ELSE /\ rPc' = "done"
            /\ UNCHANGED confirmsShown
    /\ UNCHANGED <<value, saved, valueAtInit>>
    /\ NotAutosave

\* confirm() returns true: editorTextarea.value = state.content.
ConfirmRestore ==
    /\ rPc = "confirming"
    /\ value' = saved[1].content
    /\ rPc' = "restored"
    /\ UNCHANGED <<saved, confirmsShown, valueAtInit>>
    /\ NotAutosave

\* confirm() returns false.
DeclineRestore ==
    /\ rPc = "confirming"
    /\ rPc' = "declined"
    /\ UNCHANGED <<value, saved, confirmsShown, valueAtInit>>
    /\ NotAutosave

\* saveToLocalStorage, when the autosave timer fires later in the session.
SaveToLocalStorage ==
    /\ rPc \in {"done", "restored", "declined"}
    /\ saved' = <<[form |-> "state", content |-> value, timestamp |-> Now]>>
    /\ rPc' = "saved"
    /\ UNCHANGED <<value, confirmsShown, valueAtInit>>
    /\ NotAutosave

AutosaveNext ==
    \/ RestoreAutoSave
    \/ ConfirmRestore
    \/ DeclineRestore
    \/ SaveToLocalStorage

SpecAutosave == AutosaveInit /\ [][AutosaveNext]_vars

\* The record exists, is under seven days old and holds more than white space.
RecordIsEligible ==
    /\ saved # <<>>
    /\ saved[1].form = "state"
    /\ Now - saved[1].timestamp < 604800000
    /\ \E k \in 1..Len(saved[1].content) : saved[1].content[k] \notin White

(***************************************************************************)
(* C19: once init has run restoreAutoSave, the restore was offered (one    *)
(* confirm dialog) exactly when a record exists, is strictly under seven   *)
(* days old and has content other than white space; when it was not        *)
(* offered, or was declined, the editor content is what it was.            *)
(***************************************************************************)
AutosaveOfferedIffEligible ==
    rPc \in {"confirming", "done", "restored", "declined"} =>
        /\ confirmsShown = (IF RecordIsEligible THEN 1 ELSE 0)
        /\ (rPc = "done") = ~RecordIsEligible
        /\ rPc \in {"confirming", "done", "declined"} => value = valueAtInit

\* A record exactly seven days old with real content was not offered, and the
\* editor kept its content.
SevenDayOldRecordNotOffered ==
    /\ rPc = "done"
    /\ saved # <<>>
    /\ saved[1].form = "state"
    /\ saved[1].timestamp = Now - 604800000
    /\ saved[1].content = <<"a", "NL", "b">>
    /\ confirmsShown = 0
    /\ value = <<"x">>

(***************************************************************************)
(* C21: the ids one collapse pass generates are pairwise distinct, so the  *)
(* store it fills holds one entry per replaced image.                      *)
(***************************************************************************)
PassIdsAreDistinct ==
    \A n \in 1..Len(cOps) :
        cOps[n] = "collapse" =>
            /\ \A j, k \in 1..Len(cIds[n]) : cIds[n][j] = cIds[n][k] => j = k
            /\ Cardinality(DOMAIN cStores[n + 1]) = Len(cIds[n])

(***************************************************************************)
(* The top-level DOCX pass, processNodesWithState                          *)
(* (src/js/export.js:1166-1206), one step per node of the container.       *)
(***************************************************************************)
TextNode == [tagName |-> "#text", items |-> <<>>]

\* What the container may hold at top level: lists, paragraphs, headings and
\* bare text.
NodeKinds == {"UL1", "OL1", "P", "H1", "T"}
NodeOfKind(kind, k) == IF kind = "T" THEN TextNode ELSE DocxElement(kind, k)

\* What one pass of the loop adds to result (lines 1173-1202).
NodeText(node, afterList) ==
    CASE node.tagName = "#text" ->
             IF afterList THEN Spaces(4) \o <<"w", "NL", "NL">> ELSE <<"w">>
      [] node.tagName \in ListTags ->
             <<"NL">> \o ListText(node.items, IF node.tagName = "OL" THEN "ol" ELSE "ul", 1)
                 \o <<"NL">>
      [] node.tagName = "P" /\ afterList -> Spaces(4) \o <<"w", "NL", "NL">>
      [] node.tagName = "P" -> <<"w", "NL", "NL">>
      [] OTHER -> <<"NL", "#", "SP", "w", "NL", "NL">>

\* lastWasListItem after the pass (lines 1188-1200).
FlagAfterNode(node, afterList) ==
    CASE node.tagName = "#text" -> afterList
      [] node.tagName \in ListTags -> TRUE
      [] node.tagName = "P" /\ afterList -> afterList
      [] OTHER -> FALSE

NodesInit ==
    /\ \E kinds \in SeqsUpTo(NodeKinds, MaxNodes) :
          topNodes = [k \in 1..Len(kinds) |-> NodeOfKind(kinds[k], k)]
    /\ nodeResults = <<>>
    /\ lastWasListItem = FALSE
    /\ nPc = "loop"
    /\ IdleOtherNode

\* One pass of `for (let i = 0; i < nodes.length; i++)`.
ProcessNode ==
    /\ nPc = "loop" /\ Len(nodeResults) < Len(topNodes)
    /\ LET node == topNodes[Len(nodeResults) + 1]
       IN  /\ nodeResults' = Append(nodeResults, NodeText(node, lastWasListItem))
           /\ lastWasListItem' = FlagAfterNode(node, lastWasListItem)
    /\ UNCHANGED <<topNodes, nPc>>
    /\ UNCHANGED otherNodeVars

\* return result
ReturnNodes ==
    /\ nPc = "loop" /\ Len(nodeResults) = Len(topNodes)
    /\ nPc' = "returned"
    /\ UNCHANGED <<topNodes, nodeResults, lastWasListItem>>
    /\ UNCHANGED otherNodeVars

NodesNext == ProcessNode \/ ReturnNodes

SpecNodes == NodesInit /\ [][NodesNext]_vars

\* Whether a text begins with the four-space continuation indent.
StartsIndented(text) == Len(text) >= 4 /\ SubSeq(text, 1, 4) = Spaces(4)

(***************************************************************************)
(* C22: a top-level paragraph is emitted with the four-space indent        *)
(* exactly when the node right before it is a list; a paragraph that       *)
(* follows another paragraph is not indented.                              *)
(***************************************************************************)
IndentOnlyRightAfterList ==
    \A k \in 1..Len(nodeResults) :
        topNodes[k].tagName = "P" =>
            StartsIndented(nodeResults[k])
                = (k > 1 /\ topNodes[k - 1].tagName \in ListTags)

(***************************************************************************)
(* Lines that open with a list marker: processTextBlock                    *)
(* (src/js/pdf-converter.js:275-414) on a block of one body-size line.     *)
(***************************************************************************)
\* The markers a line may open with: the eight roman forms, two of them in
\* capitals as well.
MarkerForms ==
    { <<"i">>, <<"i","i">>, <<"i","i","i">>, <<"i","v">>, <<"v">>, <<"v","i">>,
      <<"v","i","i">>, <<"v","i","i","i">>, <<"I","I">>, <<"V">> }
MarkerRests == { <<>>, <<"SP", "a", "b">>, <<"SP", "SP", "b">> }
MarkerXs == {50, 80}

\* A body-size (11 pt), regular-weight run.
MarkerRun(str, x) == [str |-> str, x |-> x, y |-> 700, fontSize |-> 11, bold |-> FALSE]

MarkersInit ==
    /\ \E m \in MarkerForms, p \in ListPunct, rest \in MarkerRests, x \in MarkerXs :
          markerLine = << MarkerRun(m \o <<p>> \o rest, x) >>
    /\ markerOut = <<>>
    /\ mPc = "start"
    /\ IdleOtherMarker

\* processTextBlock(items)
ProcessMarkerLine ==
    /\ mPc = "start"
    /\ markerOut' = processTextBlock(markerLine)
    /\ mPc' = "done"
    /\ UNCHANGED markerLine
    /\ UNCHANGED otherMarkerVars

MarkersNext == ProcessMarkerLine

SpecMarkers == MarkersInit /\ [][MarkersNext]_vars

\* The line's text with the marker m, its punctuation and the white space
\* after them taken off, if the text opens with m and '.' or ')'.
AfterMarker(text, m) ==
    IF /\ Len(text) > Len(m)
       /\ [k \in 1..Len(m) |-> toLowerCase(text[k])] = m
       /\ text[Len(m) + 1] \in ListPunct
    THEN << From(text, SkipSpaces(text, Len(m) + 2)) >>
    ELSE <<>>

(***************************************************************************)
(* C23: a body-size, regular-weight line that opens with one of the roman  *)
(* markers i, ii, iii, iv, v, vi, vii, viii and '.' or ')' is rendered as  *)
(* eight spaces, the numeral, '. ' and the rest of the line.               *)
(***************************************************************************)
RomanMarkerIndentedTwice ==
    mPc = "done" =>
        \A n \in 1..Len(RomanNumerals) :
            LET rest == AfterMarker(LineText(markerLine), RomanNumerals[n])
            IN  rest # <<>> =>
                    markerOut = Spaces(8) \o RomanNumerals[n] \o <<".", "SP">> \o rest[1]

(***************************************************************************)
(* The debounced preview update: the 'input' listener of                   *)
(* setupInputListeners (src/js/editor.js:171-186), triggerPreviewUpdate    *)
(* (345-349), scheduleAutoSave (373-378) and Preview.render.  A pending    *)
(* timeout is a record of its id and of the callback it runs.              *)
(***************************************************************************)
PreviewPlaceholder == <<"preview-placeholder">>

\* Preview.render(markdown): the placeholder for blank content, else the
\* rendering of the content.
Render(content) == IF Trim(content) = <<>> THEN PreviewPlaceholder ELSE <<"html">> \o content

\* clearTimeout(id)
ClearTimeout(pending, id) == { t \in pending : t.id # id }
\* A clearTimeout that cancels nothing.
ClearNothing(pending, id) == pending
\* clearTimeout(debounceTimer) of the input listener
ClearDebounce(pending, id) == ClearTimeout(pending, id)

DebouncePending == { t \in timers : t.fn = "debounce" }

NotDebounce ==
    UNCHANGED <<imagesCollapsed, imageStore, codecVars, fmtVars, asmVars, scanVars, listVars,
                tableVars, blockVars, gapVars, convVars, importVars,
                confirmsShown, valueAtInit, rPc, restOfDebounceVars>>

DebounceInit ==
    /\ EditorInit
    /\ timers = {}
    /\ debounceTimer = 0
    /\ autosaveTimer = 0
    /\ nextTimerId = 1
    /\ preview = PreviewPlaceholder
    /\ inputCount = 0
    /\ debouncedRenders = 0
    /\ IdleCodec /\ IdleFmt /\ IdleAsm /\ IdleScan /\ IdleLists
    /\ IdleMid /\ IdleRestOfDebounce

\* The user types a character: the 'input' listener runs saveToHistory,
\* clears the pending debounce timeout and sets a new one.
TypeDebounced ==
    /\ Len(value) < MaxInputs
    /\ \E c \in {"a", "b"} :
          /\ value' = Append(value, c)
          /\ LET h == saveToHistory(history, historyIndex, value')
             IN  history' = h.history /\ historyIndex' = h.historyIndex
    /\ timers' = ClearDebounce(timers, debounceTimer)
                     \cup { [id |-> nextTimerId, fn |-> "debounce"] }
    /\ debounceTimer' = nextTimerId
    /\ nextTimerId' = nextTimerId + 1
    /\ inputCount' = inputCount + 1
    /\ debouncedRenders' = 0
    /\ UNCHANGED <<autosaveTimer, preview, saved>>
    /\ NotDebounce

\* The debounce timeout fires: triggerPreviewUpdate (the 'editor:update'
\* listener renders at once), updateWordCount, scheduleAutoSave.
DebounceFires ==
    /\ \E t \in DebouncePending :
          timers' = (ClearTimeout(timers, autosaveTimer) \ {t})
                        \cup { [id |-> nextTimerId, fn |-> "autosave"] }
    /\ preview' = Render(value)
    /\ autosaveTimer' = nextTimerId
    /\ nextTimerId' = nextTimerId + 1
    /\ debouncedRenders' = debouncedRenders + 1
    /\ UNCHANGED <<value, history, historyIndex, debounceTimer, inputCount, saved>>
    /\ NotDebounce

\* The autosave timeout fires: saveToLocalStorage.
AutosaveFires ==
    /\ \E t \in timers :
          /\ t.fn = "autosave"
          /\ timers' = timers \ {t}
    /\ saved' = <<[form |-> "state", content |-> value, timestamp |-> Now]>>
    /\ UNCHANGED <<value, history, historyIndex, debounceTimer, autosaveTimer, nextTimerId,
                   preview, inputCount, debouncedRenders>>
    /\ NotDebounce

\* A toolbar button (horizontal rule): the text is inserted and
\* triggerPreviewUpdate is called directly, with no timeout.
ToolbarInsert ==
    /\ Len(value) < MaxInputs
    /\ value' = Append(value, "hr")
    /\ preview' = Render(value')
    /\ UNCHANGED <<history, historyIndex, timers, debounceTimer, autosaveTimer, nextTimerId,
                   inputCount, debouncedRenders, saved>>
    /\ NotDebounce

DebounceNext ==
    \/ TypeDebounced
    \/ DebounceFires
    \/ AutosaveFires
    \/ ToolbarInsert

SpecDebounce == DebounceInit /\ [][DebounceNext]_vars

(***************************************************************************)
(* C24: at most one debounced preview update is pending; while one is      *)
(* pending no debounced render has happened since the last input event;    *)
(* once none is pending, exactly one debounced render has happened since   *)
(* the last input event and the preview shows the current content.         *)
(***************************************************************************)
OneDebouncedRenderOfLatest ==
    /\ Cardinality(DebouncePending) <= 1
    /\ DebouncePending # {} => debouncedRenders = 0
    /\ (inputCount > 0 /\ DebouncePending = {}) =>
           /\ debouncedRenders = 1
           /\ preview = Render(value)

\* Two input events came in one burst (the first one's timeout never fired),
\* and the one debounced render that followed shows the latest content.
BurstRenderedOnce ==
    /\ inputCount = 2
    /\ nextTimerId = 4
    /\ DebouncePending = {}
    /\ debouncedRenders = 1
    /\ Len(value) = 2
    /\ preview = <<"html">> \o value

(***************************************************************************)
(* Editing while the images are collapsed: toggleImageCollapse             *)
(* (src/js/editor.js:849-874) around input events that leave every         *)
(* placeholder token as it is (the user types before or after the text).   *)
(***************************************************************************)
\* Pieces of a document with data-URL images and no placeholder-like text.
DocFragments ==
    { <<"x">>, <<"!">>, <<"H1">>,
      <<"!", "[", "x", "]", "(", "D1", ")">>,
      <<"(", "D2", ")">> }
EditDocs == { Flatten(parts) : parts \in SeqsUpTo(DocFragments, MaxParts) }

NotEdits ==
    UNCHANGED <<codecVars, fmtVars, asmVars, scanVars, listVars, midVars, restOfEditVars>>

EditsInit ==
    /\ original \in EditDocs
    /\ value = original
    /\ imagesCollapsed = FALSE
    /\ imageStore = EmptyStore
    /\ history = <<>>
    /\ historyIndex = -1
    /\ typedAtStart = <<>>
    /\ typedAtEnd = <<>>
    /\ IdleCodec /\ IdleFmt /\ IdleAsm /\ IdleScan /\ IdleLists
    /\ IdleMid /\ IdleRestOfEdit

\* The 'input' listener after the user typed 'y' in front of the collapsed text.
TypeAtStart ==
    /\ imagesCollapsed
    /\ Len(typedAtStart) + Len(typedAtEnd) < MaxEdits
    /\ value' = <<"y">> \o value
    /\ typedAtStart' = <<"y">> \o typedAtStart
    /\ LET h == saveToHistory(history, historyIndex, value')
       IN  history' = h.history /\ historyIndex' = h.historyIndex
    /\ UNCHANGED <<imagesCollapsed, imageStore, original, typedAtEnd>>
    /\ NotEdits

\* The 'input' listener after the user typed 'z' behind the collapsed text.
TypeAtEnd ==
    /\ imagesCollapsed
    /\ Len(typedAtStart) + Len(typedAtEnd) < MaxEdits
    /\ value' = Append(value, "z")
    /\ typedAtEnd' = Append(typedAtEnd, "z")
    /\ LET h == saveToHistory(history, historyIndex, value')
       IN  history' = h.history /\ historyIndex' = h.historyIndex
    /\ UNCHANGED <<imagesCollapsed, imageStore, original, typedAtStart>>
    /\ NotEdits

EditsNext ==
    \/ ToggleCollapse
    \/ TypeAtStart
    \/ TypeAtEnd
    \/ ToggleExpand

SpecCollapseEdit == EditsInit /\ [][EditsNext]_vars

(***************************************************************************)
(* C25: whenever the images are expanded again, the text is the loaded     *)
(* document with what the user typed while collapsed around it: the edits  *)
(* are kept and every image is back in its place, once.                    *)
(***************************************************************************)
ExpandKeepsEditsAndImages ==
    ~imagesCollapsed => value = typedAtStart \o original \o typedAtEnd

(***************************************************************************)
(* The image lookups of extractImagesWithPositions                         *)
(* (src/js/pdf-converter.js:600-698): for each reference a promise that    *)
(* page.objs.get settles through its callback, or a 5000 ms timeout        *)
(* rejects.  The object store may call a callback at any time, or never.   *)
(***************************************************************************)
\* What the store hands to a callback: an image, an image under 20 x 20, nothing.
CallbackData == {"image", "small", "none"}

NotLookup == UNCHANGED otherLookupVars

LookupInit ==
    /\ lookupCount \in 0..MaxLookups
    /\ lookupIndex = 1
    /\ promiseState = "none"
    /\ timeoutPending = FALSE
    /\ callbacksOwed = {}
    /\ foundImages = <<>>
    /\ timedOut = {}
    /\ lateCallbacks = {}
    /\ xPc = "loop"
    /\ IdleOtherLookup

\* A lookup that sets no timeout.
BeginLookupNoTimeout ==
    /\ xPc = "loop" /\ lookupIndex <= lookupCount /\ promiseState = "none"
    /\ promiseState' = "pending"
    /\ callbacksOwed' = callbacksOwed \cup {lookupIndex}
    /\ UNCHANGED <<lookupCount, lookupIndex, timeoutPending, foundImages, timedOut, lateCallbacks, xPc>>
    /\ NotLookup

\* new Promise(...): setTimeout(reject, 5000); page.objs.get(name, callback).
BeginLookup ==
    /\ xPc = "loop" /\ lookupIndex <= lookupCount /\ promiseState = "none"
    /\ promiseState' = "pending"
    /\ timeoutPending' = TRUE
    /\ callbacksOwed' = callbacksOwed \cup {lookupIndex}
    /\ UNCHANGED <<lookupCount, lookupIndex, foundImages, timedOut, lateCallbacks, xPc>>
    /\ NotLookup

\* The store calls the callback of the reference being awaited:
\* clearTimeout, resolve or reject, and the rest of the loop pass.
CallbackInTime ==
    /\ promiseState = "pending" /\ lookupIndex \in callbacksOwed
    /\ \E data \in CallbackData :
          foundImages' = IF data = "image" THEN Append(foundImages, lookupIndex)
                         ELSE foundImages
    /\ callbacksOwed' = callbacksOwed \ {lookupIndex}
    /\ timeoutPending' = FALSE
    /\ promiseState' = "none"
    /\ lookupIndex' = lookupIndex + 1
    /\ UNCHANGED <<lookupCount, timedOut, lateCallbacks, xPc>>
    /\ NotLookup

\* The timeout fires: reject(new Error('Timeout')), caught at line 689; the
\* loop goes on with the next reference.
LookupTimesOut ==
    /\ promiseState = "pending" /\ timeoutPending
    /\ timeoutPending' = FALSE
    /\ timedOut' = timedOut \cup {lookupIndex}
    /\ promiseState' = "none"
    /\ lookupIndex' = lookupIndex + 1
    /\ UNCHANGED <<lookupCount, callbacksOwed, foundImages, lateCallbacks, xPc>>
    /\ NotLookup

\* The store calls the callback of a reference whose promise the timeout
\* has rejected: clearTimeout of a fired timeout and resolve / reject of a
\* settled promise do nothing.
CallbackTooLate ==
    /\ \E j \in callbacksOwed :
          /\ j \in timedOut
          /\ callbacksOwed' = callbacksOwed \ {j}
          /\ lateCallbacks' = lateCallbacks \cup {j}
    /\ UNCHANGED <<lookupCount, lookupIndex, promiseState, timeoutPending, foundImages,
                   timedOut, xPc>>
    /\ NotLookup

\* return { images, imagePositions }
ReturnImages ==
    /\ xPc = "loop" /\ lookupIndex > lookupCount
    /\ xPc' = "returned"
    /\ UNCHANGED <<lookupCount, lookupIndex, promiseState, timeoutPending, callbacksOwed,
                   foundImages, timedOut, lateCallbacks>>
    /\ NotLookup

LookupNext ==
    \/ BeginLookup
    \/ CallbackInTime
    \/ LookupTimesOut
    \/ CallbackTooLate
    \/ ReturnImages

\* The event loop runs the function's own steps and fires a pending timeout;
\* nothing obliges the store to call a callback.
SpecLookup ==
    /\ LookupInit
    /\ [][LookupNext]_vars
    /\ WF_vars(BeginLookup)
    /\ WF_vars(LookupTimesOut)
    /\ WF_vars(ReturnImages)

(***************************************************************************)
(* C26: the function eventually returns whatever the store does, a         *)
(* reference whose wait ended at the timeout never has an image, also      *)
(* when its callback comes later, and the loop goes on past it.            *)
(***************************************************************************)
LookupsAlwaysReturn ==
    /\ <>(xPc = "returned")
    /\ [](\A k \in 1..Len(foundImages) : foundImages[k] \notin timedOut)
    /\ [](\A j \in timedOut : j < lookupIndex)

\* The function returned with an image from the second reference although
\* the first one timed out and its callback came afterwards.
ReturnedPastTimeout ==
    /\ xPc = "returned"
    /\ timedOut = {1}
    /\ lateCallbacks = {1}
    /\ foundImages = <<2>>

(***************************************************************************)
(* The undo history (src/js/editor.js:29-33, 437-451, 468-521, 786-805)    *)
(* over sessions long enough to fill it: typing, dropping a text file,     *)
(* undo, redo and the clear button.                                        *)
(***************************************************************************)
\* The text of the dropped file.
DroppedText == <<"F">>

NotHistory ==
    UNCHANGED <<imagesCollapsed, imageStore, codecVars, fmtVars, asmVars, scanVars, listVars,
                laterVars>>

HistoryInit ==
    /\ EditorInit
    /\ IdleCodec /\ IdleFmt /\ IdleAsm /\ IdleScan /\ IdleLists /\ IdleLater

\* The 'input' listener after the user typed a character at the end.
TypeAndSave ==
    /\ Len(value) < MaxTyped
    /\ value' = Append(value, "x")
    /\ LET h == saveToHistory(history, historyIndex, value')
       IN  history' = h.history /\ historyIndex' = h.historyIndex
    /\ NotHistory

\* handleDrop, reader.onload with the confirm accepted: the file's text
\* replaces the content, then saveToHistory().  The user drops the file while
\* the history does not hold its text.
DropFile ==
    /\ \A k \in 1..Len(history) : history[k] # DroppedText
    /\ value' = DroppedText
    /\ LET h == saveToHistory(history, historyIndex, value')
       IN  history' = h.history /\ historyIndex' = h.historyIndex
    /\ NotHistory

\* The clear button with the confirm accepted.
ClearEditor ==
    /\ value' = <<>>
    /\ history' = <<>>
    /\ historyIndex' = -1
    /\ NotHistory

HistoryNext ==
    \/ TypeAndSave
    \/ DropFile
    \/ Undo
    \/ Redo
    \/ ClearEditor

SpecHistory == HistoryInit /\ [][HistoryNext]_vars

(***************************************************************************)
(* C27: the history never holds more than 50 entries, historyIndex lies    *)
(* between -1 and history.length - 1 and is -1 exactly when the history is *)
(* empty, and a step in which saveToHistory records an entry leaves        *)
(* historyIndex at the last entry.                                         *)
(***************************************************************************)
HistoryStaysInBounds ==
    /\ [](/\ Len(history) <= 50
          /\ -1 <= historyIndex /\ historyIndex <= Len(history) - 1
          /\ (historyIndex = -1) = (history = <<>>))
    /\ [][(history' # history /\ history' # <<>>) =>
              /\ historyIndex' = Len(history') - 1
              /\ history'[Len(history')] = value']_vars

\* The history is full and has dropped its oldest entries: it begins past
\* the first typed character and ends with text typed after the dropped file.
FullHistoryShifted ==
    /\ Len(history) = 50
    /\ historyIndex = 49
    /\ Len(history[1]) >= 2
    /\ Head(history[1]) = "x"
    /\ Len(value) >= 2
    /\ Head(value) = "F"
    /\ history[50] = value

(***************************************************************************)
(* Two calls of PdfConverter.processFile (src/js/pdf-converter.js:99-133)  *)
(* running at the same time: the second file is chosen while the first is  *)
(* still being converted.  Each call keeps its markdown and images in      *)
(* locals of convertPdfToMarkdown until it returns.                        *)
(***************************************************************************)
\* The two files: their names, and per page a text and perhaps an image.
OverlapFiles ==
    << [name |-> <<"A">>, pages |-> << <<"A1">>, <<"A2">> >>, images |-> <<"imgA">>],
       [name |-> <<"B">>, pages |-> << <<"B1">> >>, images |-> <<"imgB1">>] >>

\* The pages of each file that are converted: all of them, or fewer for a
\* shorter document.
OverlapPageCounts == { <<a, b>> : a \in 1..MaxPages, b \in 1..MaxPages }

\* The markdown a finished conversion of the first n pages returns.
MarkdownOfPages(pages, n) ==
    formatMarkdown(Trim(Flatten([k \in 1..n |-> ItemsText(<<pages[((k - 1) % Len(pages)) + 1]>>)])))

NotOverlap ==
    UNCHANGED <<history, historyIndex, codecVars, fmtVars, asmVars, scanVars, listVars,
                tableVars, blockVars, gapVars, convVars, autosaveVars,
                importFile, partial, surfaceBefore, typed, iPc, restOfOverlapVars>>

OverlapInit ==
    /\ value = <<>> /\ imagesCollapsed = FALSE /\ imageStore = EmptyStore
    /\ history = <<>> /\ historyIndex = -1
    /\ \E counts \in OverlapPageCounts :
          running = [k \in 1..2 |->
                        [file |-> OverlapFiles[k], pageCount |-> counts[k],
                         pagesDone |-> 0, pc |-> "not started"]]
    /\ finished = <<>>
    /\ importFile = <<>> /\ postTitle \in { <<>>, <<"old title">> }
    /\ extractedImages = <<>> /\ errorsShown = 0
    /\ partial = <<>> /\ surfaceBefore = <<>> /\ typed = FALSE /\ iPc = "idle"
    /\ IdleCodec /\ IdleFmt /\ IdleAsm /\ IdleScan /\ IdleLists
    /\ IdleTable /\ IdleBlocks /\ IdleGaps /\ IdleConv /\ IdleAutosave
    /\ IdleRestOfOverlap

\* processFile is called for a file: the first file, or the second while
\* the first call is still converting.
BeginOverlapImport ==
    /\ \E k \in 1..2 :
          /\ running[k].pc = "not started"
          /\ k = 2 => running[1].pc = "converting"
          /\ running' = [running EXCEPT ![k].pc = "converting"]
    /\ UNCHANGED <<edVars, postTitle, extractedImages, errorsShown, finished>>
    /\ NotOverlap

\* One pass of the page loop of one of the calls.
OverlapConvertPage ==
    /\ \E k \in 1..2 :
          /\ running[k].pc = "converting"
          /\ running[k].pagesDone < running[k].pageCount
          /\ running' = [running EXCEPT ![k].pagesDone = @ + 1]
    /\ UNCHANGED <<edVars, postTitle, extractedImages, errorsShown, finished>>
    /\ NotOverlap

\* One of the conversions rejects; the catch block shows an error.
OverlapImportFails ==
    /\ \E k \in 1..2 :
          /\ running[k].pc = "converting"
          /\ running[k].pagesDone < running[k].pageCount
          /\ running' = [running EXCEPT ![k].pc = "failed"]
    /\ errorsShown' = errorsShown + 1
    /\ UNCHANGED <<edVars, postTitle, extractedImages, finished>>
    /\ NotOverlap

\* A variant that writes the editor content and leaves the images list alone.
OverlapCommitContentOnly ==
    /\ \E k \in 1..2 :
          /\ running[k].pc = "converting"
          /\ running[k].pagesDone = running[k].pageCount
          /\ postTitle' = (IF postTitle = <<>> THEN running[k].file.name ELSE postTitle)
          /\ value' = MarkdownOfPages(running[k].file.pages, running[k].pageCount)
          /\ running' = [running EXCEPT ![k].pc = "done"]
          /\ finished' = Append(finished, k)
    /\ imagesCollapsed' = FALSE
    /\ imageStore' = EmptyStore
    /\ UNCHANGED <<history, historyIndex, extractedImages, errorsShown>>
    /\ NotOverlap

\* convertPdfToMarkdown of one call returns; lines 112-126 run without an
\* await: title, Editor.setContent(result.markdown), extractedImages.
OverlapCommit ==
    /\ \E k \in 1..2 :
          /\ running[k].pc = "converting"
          /\ running[k].pagesDone = running[k].pageCount
          /\ postTitle' = (IF postTitle = <<>> THEN running[k].file.name ELSE postTitle)
          /\ value' = MarkdownOfPages(running[k].file.pages, running[k].pageCount)
          /\ extractedImages' = running[k].file.images
          /\ running' = [running EXCEPT ![k].pc = "done"]
          /\ finished' = Append(finished, k)
    /\ imagesCollapsed' = FALSE
    /\ imageStore' = EmptyStore
    /\ UNCHANGED <<history, historyIndex, errorsShown>>
    /\ NotOverlap

OverlapNext ==
    \/ BeginOverlapImport
    \/ OverlapConvertPage
    \/ OverlapImportFails
    \/ OverlapCommit

SpecOverlap == OverlapInit /\ [][OverlapNext]_vars

(***************************************************************************)
(* C28: at every moment the editor content and the extracted images come   *)
(* from the same conversion, the one that wrote last (or from none).       *)
(***************************************************************************)
ContentAndImagesFromSameImport ==
    IF finished = <<>>
    THEN value = <<>> /\ extractedImages = <<>>
    ELSE LET k == finished[Len(finished)]
         IN  /\ value = MarkdownOfPages(OverlapFiles[k].pages, running[k].pageCount)
             /\ extractedImages = OverlapFiles[k].images

\* Both imports finished, the first file last, although it was chosen first.
FirstFileFinishedLast ==
    /\ finished = <<2, 1>>
    /\ extractedImages = <<"imgA">>
    /\ value[1] = "A1"

(***************************************************************************)
(* A session with images, the collapse toggle and the autosave, followed   *)
(* by a reload of the page: toggleImageCollapse, the 'input' listener,     *)
(* scheduleAutoSave, saveToLocalStorage and restoreAutoSave                *)
(* (src/js/editor.js:171-186, 373-432, 849-874).  localStorage outlives    *)
(* the reload; imageStore, imagesCollapsed and the timers do not.          *)
(***************************************************************************)
\* The documents of the session: text with one image, as HTML or as Markdown.
SessionDocs == { <<"x", "H1">>, <<"!", "[", "x", "]", "(", "D1", ")">> }

\* The text holds the opening of a placeholder token '[IMAGE-COLLAPSED-'.
HoldsPlaceholder(content) ==
    \E i \in 1..(Len(content) - 1) : content[i] = "[" /\ content[i + 1] = "K"

NotSession ==
    UNCHANGED <<codecVars, fmtVars, asmVars, scanVars, listVars,
                tableVars, blockVars, gapVars, convVars, importVars,
                confirmsShown, valueAtInit, restOfDebounceVars>>

SessionInit ==
    /\ value \in SessionDocs
    /\ imagesCollapsed = FALSE /\ imageStore = EmptyStore
    /\ history = <<>> /\ historyIndex = -1
    /\ timers = {} /\ debounceTimer = 0 /\ autosaveTimer = 0 /\ nextTimerId = 1
    /\ preview = Render(value)
    /\ inputCount = 0 /\ debouncedRenders = 0
    /\ saved = <<>> /\ confirmsShown = 0 /\ valueAtInit = <<>> /\ rPc = "session"
    /\ IdleCodec /\ IdleFmt /\ IdleAsm /\ IdleScan /\ IdleLists
    /\ IdleTable /\ IdleBlocks /\ IdleGaps /\ IdleConv /\ IdleImport
    /\ IdleRestOfDebounce

\* toggleImageCollapse(), "Hide images" branch, with its triggerPreviewUpdate.
HideImages ==
    /\ rPc = "session"
    /\ ~imagesCollapsed
    /\ \E rnd \in SeqsOfLen(GenIds, DrawsNeeded(value)) :
          LET r == collapseImages(value, EmptyStore, rnd)
          IN  /\ value' = r.out
              /\ imageStore' = r.store
              /\ preview' = Render(r.out)
    /\ imagesCollapsed' = TRUE
    /\ UNCHANGED <<history, historyIndex, timers, debounceTimer, autosaveTimer, nextTimerId,
                   inputCount, debouncedRenders, saved, rPc>>
    /\ NotSession

\* toggleImageCollapse(), "Show images" branch, with its triggerPreviewUpdate.
ShowImages ==
    /\ rPc = "session"
    /\ imagesCollapsed
    /\ value' = restoreImages(value, imageStore)
    /\ preview' = Render(value')
    /\ imagesCollapsed' = FALSE
    /\ UNCHANGED <<imageStore, history, historyIndex, timers, debounceTimer, autosaveTimer,
                   nextTimerId, inputCount, debouncedRenders, saved, rPc>>
    /\ NotSession

\* The 'input' listener after the user typed 'z' at the end of the text.
TypeInSession ==
    /\ rPc = "session"
    /\ inputCount < MaxInputs
    /\ value' = Append(value, "z")
    /\ LET h == saveToHistory(history, historyIndex, value')
       IN  history' = h.history /\ historyIndex' = h.historyIndex
    /\ timers' = ClearDebounce(timers, debounceTimer)
                     \cup { [id |-> nextTimerId, fn |-> "debounce"] }
    /\ debounceTimer' = nextTimerId
    /\ nextTimerId' = nextTimerId + 1
    /\ inputCount' = inputCount + 1
    /\ debouncedRenders' = 0
    /\ UNCHANGED <<imagesCollapsed, imageStore, autosaveTimer, preview, saved, rPc>>
    /\ NotSession

\* The page is reloaded and Editor.init runs restoreAutoSave; the user
\* accepts the offer: editorTextarea.value = state.content.
ReloadAndRestore ==
    /\ rPc = "session"
    /\ saved # <<>>
    /\ saved[1].form = "state"
    /\ IsFresh(Now, saved[1].timestamp)
    /\ saved[1].content # <<>>
    /\ Trim(saved[1].content) # <<>>
    /\ value' = saved[1].content
    /\ imagesCollapsed' = FALSE /\ imageStore' = EmptyStore
    /\ history' = <<>> /\ historyIndex' = -1
    /\ timers' = {} /\ debounceTimer' = 0 /\ autosaveTimer' = 0 /\ nextTimerId' = 1
    /\ preview' = PreviewPlaceholder
    /\ inputCount' = 0 /\ debouncedRenders' = 0
    /\ rPc' = "restored"
    /\ UNCHANGED saved
    /\ NotSession

\* The page is reloaded and the user declines the offer, or none is made.
ReloadAndDecline ==
    /\ rPc = "session"
    /\ value' = <<>>
    /\ imagesCollapsed' = FALSE /\ imageStore' = EmptyStore
    /\ history' = <<>> /\ historyIndex' = -1
    /\ timers' = {} /\ debounceTimer' = 0 /\ autosaveTimer' = 0 /\ nextTimerId' = 1
    /\ preview' = PreviewPlaceholder
    /\ inputCount' = 0 /\ debouncedRenders' = 0
    /\ rPc' = "declined"
    /\ UNCHANGED saved
    /\ NotSession

SessionNext ==
    \/ HideImages
    \/ ShowImages
    \/ TypeInSession
    \/ DebounceFires
    \/ AutosaveFires
    \/ ReloadAndRestore
    \/ ReloadAndDecline

SpecSession == SessionInit /\ [][SessionNext]_vars

(***************************************************************************)
(* C29: the autosave record never holds a collapse placeholder (its image  *)
(* lives only in the in-memory store), and the content restored after a    *)
(* reload holds none either.                                               *)
(***************************************************************************)
AutosaveHoldsNoPlaceholder ==
    /\ saved # <<>> => ~HoldsPlaceholder(saved[1].content)
    /\ rPc = "restored" => ~HoldsPlaceholder(value)

(***************************************************************************)
(* Start-up: App's init calls Editor.init (which runs restoreAutoSave,     *)
(* src/js/editor.js:38-73, 413-432), then Preview.init (which registers    *)
(* the 'editor:update' listener), then sets the 100 ms timeout of the      *)
(* initial preview trigger (src/README.md:279-314, 194-226).               *)
(***************************************************************************)
NotStartup ==
    UNCHANGED <<imagesCollapsed, imageStore, codecVars, fmtVars, asmVars, scanVars, listVars,
                tableVars, blockVars, gapVars, convVars, importVars,
                nodeVars, markerVars, editVars, lookupVars, overlapVars>>

\* document.dispatchEvent(new CustomEvent('editor:update', ...)): the
\* preview after it, given whether Preview's listener is registered.
AfterUpdateEvent(isListening, shown, content) ==
    IF isListening THEN Render(content) ELSE shown

StartupInit ==
    /\ EditorInit
    /\ saved \in SavedItems
    /\ confirmsShown = 0 /\ valueAtInit = <<>> /\ rPc = "init"
    /\ timers = {} /\ debounceTimer = 0 /\ autosaveTimer = 0 /\ nextTimerId = 1
    /\ preview \in { <<>>, PreviewPlaceholder }
    /\ inputCount = 0 /\ debouncedRenders = 0
    /\ listening = FALSE /\ startPc = "Editor.init" /\ eventsLost = 0
    /\ IdleCodec /\ IdleFmt /\ IdleAsm /\ IdleScan /\ IdleLists
    /\ IdleTable /\ IdleBlocks /\ IdleGaps /\ IdleConv /\ IdleImport
    /\ IdleNodes /\ IdleMarkers /\ IdleEdits /\ IdleLookup /\ IdleOverlap

\* Editor.init(): restoreAutoSave with the answer the user gives to its
\* confirm dialog; on acceptance the content is restored and
\* triggerPreviewUpdate dispatches 'editor:update'.
StartEditor ==
    /\ startPc = "Editor.init"
    /\ IF /\ saved # <<>>
          /\ saved[1].form = "state"
          /\ IsFresh(Now, saved[1].timestamp)
          /\ saved[1].content # <<>>
          /\ Trim(saved[1].content) # <<>>
       THEN /\ confirmsShown' = confirmsShown + 1
            /\ \E accepted \in BOOLEAN :
                  IF accepted
                  THEN /\ value' = saved[1].content
                       /\ preview' = AfterUpdateEvent(listening, preview, value')
                       /\ eventsLost' = IF listening THEN eventsLost ELSE eventsLost + 1
                       /\ rPc' = "restored"
                  ELSE /\ rPc' = "declined"
                       /\ UNCHANGED <<value, preview, eventsLost>>
       ELSE /\ rPc' = "done"
            /\ UNCHANGED <<value, preview, eventsLost, confirmsShown>>
    /\ startPc' = "Preview.init"
    /\ UNCHANGED <<history, historyIndex, saved, valueAtInit, timers, debounceTimer,
                   autosaveTimer, nextTimerId, inputCount, debouncedRenders, listening>>
    /\ NotStartup

\* Preview.init(): setupEventListeners registers the 'editor:update' listener.
StartPreview ==
    /\ startPc = "Preview.init"
    /\ listening' = TRUE
    /\ startPc' = "rest of init"
    /\ UNCHANGED <<value, history, historyIndex, autosaveVars, debounceVars, eventsLost>>
    /\ NotStartup

\* The rest of App's init, ending with the setTimeout of the initial
\* preview trigger.
StartRest ==
    /\ startPc = "rest of init"
    /\ timers' = timers \cup { [id |-> nextTimerId, fn |-> "initial trigger"] }
    /\ nextTimerId' = nextTimerId + 1
    /\ startPc' = "initialised"
    /\ UNCHANGED <<value, history, historyIndex, autosaveVars, debounceTimer, autosaveTimer,
                   preview, inputCount, debouncedRenders, listening, eventsLost>>
    /\ NotStartup

\* The initial trigger fires: 'editor:update' with content ''.
InitialTriggerFires ==
    /\ \E t \in timers :
          /\ t.fn = "initial trigger"
          /\ timers' = timers \ {t}
    /\ preview' = AfterUpdateEvent(listening, preview, <<>>)
    /\ eventsLost' = IF listening THEN eventsLost ELSE eventsLost + 1
    /\ startPc' = "started"
    /\ UNCHANGED <<value, history, historyIndex, autosaveVars, debounceTimer, autosaveTimer,
                   nextTimerId, inputCount, debouncedRenders, listening>>
    /\ NotStartup

\* The user types a character once the application is initialised: the
\* 'input' listener of TypeDebounced.
TypeAfterStart ==
    /\ startPc \in {"initialised", "started"}
    /\ inputCount < MaxInputs
    /\ value' = Append(value, "z")
    /\ LET h == saveToHistory(history, historyIndex, value')
       IN  history' = h.history /\ historyIndex' = h.historyIndex
    /\ timers' = ClearDebounce(timers, debounceTimer)
                     \cup { [id |-> nextTimerId, fn |-> "debounce"] }
    /\ debounceTimer' = nextTimerId
    /\ nextTimerId' = nextTimerId + 1
    /\ inputCount' = inputCount + 1
    /\ debouncedRenders' = 0
    /\ UNCHANGED <<autosaveVars, autosaveTimer, preview, startVars>>
    /\ NotStartup

StartupNext ==
    \/ StartEditor
    \/ StartPreview
    \/ StartRest
    \/ InitialTriggerFires
    \/ TypeAfterStart
    \/ DebounceFires
    \/ AutosaveFires

SpecStartup == StartupInit /\ [][StartupNext]_vars

(***************************************************************************)
(* C30: once start-up is over (every init call made, the initial preview   *)
(* trigger fired) and before the user types, the preview shows the         *)
(* rendering of the editor's content: the restored content when the        *)
(* autosave was restored, not the empty-state placeholder.                 *)
(***************************************************************************)
PreviewShowsContentAfterStart ==
    (startPc = "started" /\ inputCount = 0) => preview = Render(value)

=============================================================================
